---- MODULE Spec2Model ----
(***************************************************************************)
(* A model of the GitHub repository manager: the session (utils/auth.py,   *)
(* app.py), the local repository operations (utils/git_operations.py), the *)
(* repository catalog (utils/github_manager.py) and the page workflows     *)
(* (pages/01_Repository_List.py, pages/02_Upload_Project.py).              *)
(*                                                                         *)
(* Strings that the code inspects are sequences of one-character strings   *)
(* (tokens) or sequences of fragments (error texts), so that trimming,     *)
(* pattern matching and substring tests are computed, not assumed.         *)
(***************************************************************************)
EXTENDS Integers, Sequences, FiniteSets, TLC

VARIABLES
    \* ---- session (utils/auth.py, app.py)
    github_client,      \* GitHubAuth.github_client: None or Some(the client's token)
    authenticated,      \* st.session_state.authenticated
    user_info,          \* st.session_state.user_info
    developer_name,     \* st.session_state.developer_name
    github_token,       \* st.session_state.github_token
    authRet,            \* what the last call of GitHubAuth.authenticate returned
    infoRet,            \* what the last call of GitHubAuth.get_user_info did
    authCalls,          \* number of calls of GitHubAuth.authenticate so far
    authUi,             \* the message authenticate_user showed last
    \* ---- upload page (pages/02_Upload_Project.py) and what it acts on
    remote,             \* the remote service's repositories: name -> [exists, main]
    disk,               \* the local folders: path -> [kind, entries, pending, repo, head, origin]
    tempOnDisk,         \* the temporary directories that exist on disk
    tempMade,           \* number of temporary directories made so far
    up,                 \* the last run of the upload page
    \* ---- clone (utils/git_operations.py: clone_repository)
    cparent,            \* the download locations: local_path -> "absent" | "dir" | "file"
    cdest,              \* the destinations: <<local_path, repo_name>> -> kind
    cl,                 \* the last call of clone_repository
    \* ---- Repository List page (pages/01_Repository_List.py)
    downloading,        \* st.session_state["downloading_<name>"]
    widgets,            \* what the page's widgets hold and show between runs
    dl,                 \* the last run of the page
    \* ---- calls of single operations
    ls,                 \* the last call of GitHubManager.get_repositories
    sr,                 \* the last call of GitHubManager.search_repositories
    pat,                \* the last call of GitHubAuth.validate_pat_format
    sz,                 \* the last call of GitOperations.get_directory_size
    dc,                 \* the last call of download_repository with the form confirmed
    cu,                 \* the last call of GitOperations.cleanup_temp_dirs
    ed,                 \* the code editor page: the repository edited, the last run
    gi,                 \* the last call of GitHubAuth.get_user_info on a session
    cr,                 \* the last call of GitHubManager.create_repository on its own
    tool,               \* what `git --version` did in the last run of a page
    da                  \* second call of download_repository of a session (a record)

authVars == <<github_client, authenticated, user_info, developer_name,
              github_token, authRet, infoRet, authCalls, authUi>>

upVars == <<remote, disk, tempOnDisk, tempMade, up>>

cloneVars == <<cparent, cdest, cl>>

dlVars == <<downloading, widgets, dl>>

\* the calls and pages that are not runs of the three workflows' pages
opVars == <<ls, sr, pat, sz, dc, cu, gi, cr, da>>

callVars == <<opVars, ed, tool>>

vars == <<authVars, upVars, cloneVars, dlVars, callVars>>

\* Python's None and a present value: a sequence of no or one element
None == <<>>
Some(x) == <<x>>
The(o) == o[1]

(***************************************************************************)
(* Characters and strings                                                  *)
(***************************************************************************)
Lower == {"a","b","c","d","e","f","g","h","i","j","k","l","m",
          "n","o","p","q","r","s","t","u","v","w","x","y","z"}
Upper == {"A","B","C","D","E","F","G","H","I","J","K","L","M",
          "N","O","P","Q","R","S","T","U","V","W","X","Y","Z"}
Digit == {"0","1","2","3","4","5","6","7","8","9"}

\* [a-zA-Z0-9]
Alnum == Lower \cup Upper \cup Digit

\* [a-zA-Z0-9_]
AlnumUnderscore == Alnum \cup {"_"}

\* the characters str.strip() removes
Whitespace == {" ", "\t", "\n", "\r", "\f"}

Rep(c, n) == [i \in 1..n |-> c]

RECURSIVE lstrip(_)
lstrip(s) == IF s # <<>> /\ Head(s) \in Whitespace THEN lstrip(Tail(s)) ELSE s

RECURSIVE rstrip(_)
rstrip(s) ==
    IF s # <<>> /\ s[Len(s)] \in Whitespace
    THEN rstrip(SubSeq(s, 1, Len(s) - 1))
    ELSE s

\* str.strip()
strip(s) == rstrip(lstrip(s))

(***************************************************************************)
(* utils/auth.py: GitHubAuth.validate_pat_format                           *)
(***************************************************************************)
ClassicLen == 36
FineLen == 82

ghp_ == <<"g","h","p","_">>
github_pat_ == <<"g","i","t","h","u","b","_","p","a","t","_">>

\* re.match(r'^<prefix>[<chars>]{n}$', token): `$` matches at the end of the
\* string and also just before a newline that ends the string.
re_match(prefix, chars, n, token) ==
    LET p == Len(prefix)
    IN  /\ \/ Len(token) = p + n
           \/ Len(token) = p + n + 1 /\ token[p + n + 1] = "\n"
        /\ SubSeq(token, 1, p) = prefix
        /\ \A i \in (p + 1)..(p + n) : token[i] \in chars

classic_pattern(token) == re_match(ghp_, Alnum, ClassicLen, token)

fine_grained_pattern(token) == re_match(github_pat_, AlnumUnderscore, FineLen, token)

validate_pat_format_AnyLength(token) ==
    \/ Len(token) >= Len(ghp_) /\ SubSeq(token, 1, Len(ghp_)) = ghp_
    \/ fine_grained_pattern(token)

validate_pat_format(token) == classic_pattern(token) \/ fine_grained_pattern(token)

(***************************************************************************)
(* The tokens an operator may type, and what the remote service does with  *)
(* them.                                                                   *)
(***************************************************************************)
TokEmpty == <<>>
TokBlank == <<" ", "\t">>
TokA == ghp_ \o Rep("a", ClassicLen)
TokRevoked == ghp_ \o Rep("R", ClassicLen)
TokFine == github_pat_ \o Rep("_", FineLen)
TokPadded == <<" ">> \o TokA \o <<"\n">>
TokShort == ghp_ \o Rep("a", ClassicLen - 1)
TokLong == ghp_ \o Rep("a", ClassicLen + 1)
TokBadChar == ghp_ \o Rep("a", ClassicLen - 1) \o <<"-">>
TokInnerSpace == ghp_ \o Rep("a", ClassicLen - 1) \o <<" ", "a">>
TokPlaceholder == <<"y","o","u","r","_","g","i","t","h","u","b","_","p","a","t","_","h","e","r","e">>

Tokens == {TokEmpty, TokBlank, TokA, TokRevoked, TokFine, TokPadded, TokShort,
           TokLong, TokBadChar, TokInnerSpace}

\* the strings validate_pat_format is called on: a token of each shape, and
\* each with one character removed, replaced, put in front or appended
Mixed(n) == [i \in 1..n |-> <<"a", "Z", "0", "9", "q">>[(i % 5) + 1]]
TokClassic == ghp_ \o Mixed(ClassicLen)
TokFineGrained == github_pat_ \o Mixed(FineLen - 1) \o <<"_">>
Appended == {"a", "_", "-", " ", "\n", "\t"}

Without(t, i) == SubSeq(t, 1, i - 1) \o SubSeq(t, i + 1, Len(t))

PatInputs ==
    Tokens \cup
    UNION {{t} \cup {Without(t, i) : i \in 1..Len(t)}
               \cup {[t EXCEPT ![i] = "-"] : i \in 1..Len(t)}
               \cup {Append(t, c) : c \in Appended}
               \cup {<<c>> \o t : c \in Appended}
               \cup {t \o <<"\n", "\n">>, t \o t}
           : t \in {TokClassic, TokFineGrained}}

NoPatCall == [called |-> FALSE, token |-> <<>>, ret |-> FALSE]

\* a call of validate_pat_format
ValidatePatFormat ==
    /\ ~pat.called
    /\ \E token \in PatInputs :
          pat' = [called |-> TRUE, token |-> token, ret |-> validate_pat_format(token)]
    /\ UNCHANGED <<authVars, upVars, cloneVars, dlVars, ls, sr, sz, dc, cu, ed, gi, cr, tool, da>>

\* the tokens the remote service accepts, and the login each resolves to
RemoteAccepts(t) == t \in {TokA, TokFine}
Login(t) == IF t = TokA THEN "alice" ELSE "bob"

\* Exceptions of the remote round trip. A text is a sequence of fragments;
\* data is the decoded response body's message, <<>> when there is none.
NoExc == [cls |-> "none", data |-> <<>>, text |-> <<>>]
BadCredentials ==
    [cls |-> "GithubException", data |-> <<"Bad credentials">>,
     text |-> <<"401", "Bad credentials">>]
RateLimitExceeded ==
    [cls |-> "GithubException", data |-> <<"API rate limit exceeded">>,
     text |-> <<"403", "API rate limit exceeded">>]
ServerError == [cls |-> "GithubException", data |-> <<>>, text |-> <<"502">>]
ConnectionFailed ==
    [cls |-> "Exception", data |-> <<>>, text |-> <<"Network", " is unreachable">>]
ReadTimeout ==
    [cls |-> "Exception", data |-> <<>>, text |-> <<"Read", " ", "Timeout">>]
SecondaryLimit ==
    [cls |-> "Exception", data |-> <<>>, text |-> <<"secondary ", "Rate Limit">>]
Unexpected == [cls |-> "Exception", data |-> <<>>, text |-> <<"boom">>]

TransportExcs == {RateLimitExceeded, ServerError, ConnectionFailed, ReadTimeout,
                  SecondaryLimit, Unexpected}

\* what one round trip made with token t can end in
RoundTrip(t) ==
    IF RemoteAccepts(t) THEN {NoExc} \cup TransportExcs
    ELSE {BadCredentials} \cup TransportExcs

\* str.lower() of one fragment
lower(f) ==
    CASE f = "Network" -> "network"
      [] f = "Timeout" -> "timeout"
      [] f = "Rate Limit" -> "rate limit"
      [] f = "Permission" -> "permission"
      [] f = "Already Exists" -> "already exists"
      [] OTHER -> f

\* `word in text.lower()`, on fragments
contains(text, word) == \E i \in 1..Len(text) : lower(text[i]) = word

\* the text has the fragment f as it stands
HasFragment(text, f) == \E i \in 1..Len(text) : text[i] = f

\* a message the page shows
Msg(level, text) == [level |-> level, text |-> text]

(***************************************************************************)
(* utils/auth.py: GitHubAuth.authenticate and GitHubAuth.get_user_info     *)
(***************************************************************************)
\* except GithubException as e (authenticate)
on_GithubException(e) ==
    IF e.data # <<>>
    THEN <<"GitHub authentication failed: ">> \o e.data
    ELSE <<"GitHub authentication failed: ">> \o e.text

\* except Exception as e (authenticate)
on_Exception(e) ==
    IF contains(e.text, "rate limit")
    THEN <<"GitHub API rate limit exceeded. Please try again later.">>
    ELSE IF contains(e.text, "network") \/ contains(e.text, "timeout")
         THEN <<"Network error. Please check your internet connection.">>
         ELSE <<"Authentication error: ">> \o e.text

\* the inner except around user.login / user.name
on_login_failure(e) == <<"Token is valid but cannot access user information">>

AuthResult(ok, msg, client, net, token, surface, e) ==
    [success |-> ok, message |-> msg, client |-> client, net |-> net,
     token |-> token, surface |-> surface, exc |-> e]

\* a plausible slip: the client is stored as soon as it is built
authenticate_StoresBeforeVerifying(self_client, token, surface, e) ==
    IF token = <<>>
    THEN AuthResult(FALSE, <<"Token cannot be empty">>, self_client, 0, token, "none", NoExc)
    ELSE LET t == strip(token) IN
         IF ~validate_pat_format(t)
         THEN AuthResult(FALSE, <<"Invalid GitHub PAT format">>, self_client, 0, token, "none", NoExc)
         ELSE IF e = NoExc
              THEN AuthResult(TRUE, <<"Successfully authenticated as ", Login(t)>>, Some(t), 1, token, surface, e)
              ELSE IF surface = "login"
                   THEN AuthResult(FALSE, on_login_failure(e), Some(t), 1, token, surface, e)
                   ELSE IF e.cls = "GithubException"
                        THEN AuthResult(FALSE, on_GithubException(e), Some(t), 1, token, surface, e)
                        ELSE AuthResult(FALSE, on_Exception(e), Some(t), 1, token, surface, e)

\* authenticate(token) on a GitHubAuth whose stored client is self_client.
\* The one round trip (GET /user) ends in e; `surface` is where the library
\* makes it: inside get_user() ("get_user", an eager client) or when login is
\* first read ("login", a lazy client).  client is the stored client afterwards,
\* net the number of round trips made.
authenticate(self_client, token, surface, e) ==
    IF token = <<>>
    THEN AuthResult(FALSE, <<"Token cannot be empty">>, self_client, 0, token, "none", NoExc)
    ELSE LET t == strip(token) IN
         IF ~validate_pat_format(t)
         THEN AuthResult(FALSE, <<"Invalid GitHub PAT format">>, self_client, 0, token, "none", NoExc)
         ELSE IF e = NoExc
              THEN AuthResult(TRUE, <<"Successfully authenticated as ", Login(t)>>, Some(t), 1, token, surface, e)
              ELSE IF surface = "login"
                   THEN AuthResult(FALSE, on_login_failure(e), self_client, 1, token, surface, e)
                   ELSE IF e.cls = "GithubException"
                        THEN AuthResult(FALSE, on_GithubException(e), self_client, 1, token, surface, e)
                        ELSE AuthResult(FALSE, on_Exception(e), self_client, 1, token, surface, e)

\* get_user_info() on a GitHubAuth whose stored client is self_client: a new
\* user object is made and its fields are read, which is one more round trip
\* ending in e.  Any exception gives None.
get_user_info(self_client, e) ==
    IF self_client = None THEN [status |-> "no_client", info |-> None, net |-> 0]
    ELSE IF e = NoExc
         THEN [status |-> "ok", info |-> Some([login |-> Login(The(self_client))]), net |-> 1]
         ELSE [status |-> "failed", info |-> None, net |-> 1]

NoIdentityCall ==
    [called |-> FALSE, cached |-> None, exc |-> NoExc,
     r |-> [status |-> "not_called", info |-> None, net |-> 0]]

\* a call of get_user_info on the GitHubAuth of an authenticated session;
\* cached is what the session holds as user_info at the call
GetUserInfo ==
    /\ authenticated
    /\ github_client # None
    /\ \E e \in RoundTrip(The(github_client)) :
          gi' = [called |-> TRUE, cached |-> user_info, exc |-> e,
                 r |-> get_user_info(github_client, e)]
    /\ UNCHANGED <<authVars, upVars, cloneVars, dlVars, ls, sr, pat, sz, dc, cu, ed, cr, tool, da>>

(***************************************************************************)
(* The remote repositories and the local folders the upload page acts on   *)
(***************************************************************************)
RemoteNames == {"demo", "lib"}
RepoNameInputs == {""} \cup RemoteNames

\* the commit GitHub makes on main when a repository is created with auto_init
AutoInitCommit(name) == [by |-> "remote", in |-> <<name, 0>>, n |-> 1]

NoRepo == [exists |-> FALSE, main |-> <<>>]

RemoteInit == [n \in RemoteNames |-> NoRepo]

LocalPaths == {"/missing", "/notes.txt", "/empty", "/hollow", "/proj"}
LocalPathInputs == {""} \cup LocalPaths

\* A folder: id names it (a path, or the number of a temporary directory),
\* entries is whether os.scandir finds anything, pending whether it holds
\* content that staging would find changed or new, repo whether it holds a
\* .git, head the commits of its branch, origin its remote 'origin'.
Folder(id, kind, entries, pending) ==
    [id |-> id, kind |-> kind, entries |-> entries, pending |-> pending,
     repo |-> FALSE, head |-> <<>>, origin |-> None]

\* "/hollow" holds one empty sub-directory; "/proj" holds README.md
DiskInit ==
    [p \in LocalPaths |->
        CASE p = "/missing" -> Folder(<<p, 0>>, "missing", FALSE, FALSE)
          [] p = "/notes.txt" -> Folder(<<p, 0>>, "file", FALSE, FALSE)
          [] p = "/empty" -> Folder(<<p, 0>>, "dir", FALSE, FALSE)
          [] p = "/hollow" -> Folder(<<p, 0>>, "dir", TRUE, FALSE)
          [] p = "/proj" -> Folder(<<p, 0>>, "dir", TRUE, TRUE)]

\* the files an operator may upload; the second is excluded by the
\* machine's global ignore rules
FileNames == {"README.md", "Thumbs.db"}
GloballyIgnored == {"Thumbs.db"}
FileSets == (SUBSET FileNames) \ {{}}

\* the t-th tempfile.mkdtemp(), after the uploaded files are written into it
TempFolder(t, files) == Folder(<<"tmp", t>>, "dir", TRUE, files \ GloballyIgnored # {})

IsPrefix(s, t) == Len(s) <= Len(t) /\ SubSeq(t, 1, Len(s)) = s

(***************************************************************************)
(* utils/github_manager.py: GitHubManager.create_repository                *)
(***************************************************************************)
NameRejected ==
    [cls |-> "GithubException", data |-> <<"Repository creation failed.">>,
     text |-> <<"422", "Repository creation failed.">>]

created_repo_Empty(name) == [exists |-> TRUE, main |-> <<>>]

\* the repository create_repo(..., auto_init=True) makes
created_repo(name) == [exists |-> TRUE, main |-> <<AutoInitCommit(name)>>]

\* create_repository(name, ...) against the repositories rem; e is what the
\* transport does to the request.  The request is made whatever the name is;
\* the remote refuses an empty name and a name that is taken.
create_repository(name, rem, e) ==
    LET req == <<"create", name>>
        answer == IF e # NoExc THEN e
                  ELSE IF name = "" \/ rem[name].exists THEN NameRejected
                  ELSE NoExc
    IN  IF answer = NoExc
        THEN [ok |-> TRUE, reqs |-> <<req>>, err |-> <<>>,
              remote |-> [rem EXCEPT ![name] = created_repo(name)]]
        ELSE [ok |-> FALSE, reqs |-> <<req>>, remote |-> rem,
              err |-> IF answer.cls = "GithubException"
                      THEN IF answer.data # <<>>
                           THEN <<"Failed to create repository: ">> \o answer.data
                           ELSE <<"'NoneType' object has no attribute 'get'">>
                      ELSE <<"Unexpected error creating repository: ">> \o answer.text]

CreateExcs == {NoExc, ServerError, ConnectionFailed}

NoCreateCall ==
    [called |-> FALSE, name |-> "", exc |-> NoExc, ok |-> FALSE, reqs |-> <<>>,
     err |-> <<>>]

\* a call of create_repository on the manager of a session that holds a client
CreateRepository ==
    /\ github_client # None
    /\ ~cr.called
    /\ \E name \in RepoNameInputs, e \in CreateExcs :
          LET c == create_repository(name, remote, e)
          IN  /\ cr' = [called |-> TRUE, name |-> name, exc |-> e, ok |-> c.ok,
                        reqs |-> c.reqs, err |-> c.err]
              /\ remote' = c.remote
    /\ UNCHANGED <<authVars, disk, tempOnDisk, tempMade, up, cloneVars, dlVars>>
    /\ UNCHANGED <<ls, sr, pat, sz, dc, cu, ed, gi, tool, da>>

(***************************************************************************)
(* utils/git_operations.py: GitOperations.initialize_and_push              *)
(***************************************************************************)
GitFaults == {"none", "init", "add", "commit", "create_remote", "push"}

\* the commit repo.index.commit makes in folder d
NewCommit(d) == [by |-> "local", in |-> d.id, n |-> Len(d.head) + 1]

\* the two except clauses: the exception is raised again with a prefix
push_error(step, detail) ==
    IF step = "commit"
    THEN <<"Error initializing and pushing repository: ", detail>>
    ELSE <<"Git command failed: ", detail>>

PushResult(ret, d, rem, ops, push, err) ==
    [ret |-> ret, dir |-> d, remote |-> rem, ops |-> ops, push |-> push, err |-> err]

has_changes_Always(d) == TRUE

\* repo.is_dirty() or repo.untracked_files, after the staging
has_changes(d) == d.pending

\* initialize_and_push(local_path, repo_url, commit_message) on folder d,
\* pushing to repository url of rem.  fault is the step the local tool
\* or the transport fails at.  ops are the steps made, in order; push is what
\* became of the push: a push the remote rejects as not fast-forward does not
\* raise (the library reports it in the value origin.push returns, which is
\* dropped).
initialize_and_push(d, url, rem, fault) ==
    LET d1 == [d EXCEPT !.repo = TRUE, !.entries = TRUE]
        d2 == [d1 EXCEPT !.head = Append(@, NewCommit(d1)), !.pending = FALSE]
        d3 == [d2 EXCEPT !.origin = Some(url)]
    IN  IF fault = "init"
        THEN PushResult("raised", d, rem, <<"init">>, "not_called",
                        push_error("init", "cannot init"))
        ELSE IF fault = "add"
        THEN PushResult("raised", d1, rem, <<"init", "add">>, "not_called",
                        push_error("add", "cannot add"))
        ELSE IF ~has_changes(d1)
        THEN PushResult("false", d1, rem, <<"init", "add">>, "not_called", <<>>)
        ELSE IF fault = "commit"
        THEN PushResult("raised", d1, rem, <<"init", "add", "commit">>, "not_called",
                        push_error("commit", "cannot commit"))
        ELSE IF fault = "create_remote" \/ d2.origin # None
        THEN PushResult("raised", d2, rem, <<"init", "add", "commit", "create_remote">>,
                        "not_called",
                        push_error("create_remote", "remote origin already exists"))
        ELSE IF fault = "push"
        THEN PushResult("raised", d3, rem,
                        <<"init", "add", "commit", "create_remote", "push">>, "failed",
                        push_error("push", "unable to access"))
        ELSE IF IsPrefix(rem[url].main, d3.head)
        THEN PushResult("true", d3, [rem EXCEPT ![url].main = d3.head],
                        <<"init", "add", "commit", "create_remote", "push">>,
                        "accepted", <<>>)
        ELSE PushResult("true", d3, rem,
                        <<"init", "add", "commit", "create_remote", "push">>,
                        "rejected", <<>>)

(***************************************************************************)
(* utils/git_operations.py: validate_git_installation, cleanup_temp_dirs   *)
(***************************************************************************)
GitProbes == {"ok", "nonzero", "timeout", "missing", "error"}

\* validate_git_installation(): probe is what running `git --version` did
validate_git_installation(probe) ==
    CASE probe = "ok" -> [valid |-> TRUE, msg |-> "git version"]
      [] probe = "nonzero" ->
            [valid |-> FALSE, msg |-> "Git is not properly installed or accessible"]
      [] probe = "timeout" -> [valid |-> FALSE, msg |-> "Git command timed out"]
      [] probe = "missing" ->
            [valid |-> FALSE, msg |-> "Git is not installed or not in PATH"]
      [] OTHER -> [valid |-> FALSE, msg |-> "Error validating git installation"]

\* the state of the loop of cleanup_temp_dirs: what is left on disk, the
\* directories shutil.rmtree was called on, the warnings logged, and whether
\* an exception left the loop
CleanupStart(onDisk) ==
    [left |-> onDisk, attempts |-> <<>>, warnings |-> <<>>, raised |-> FALSE]

remove_temp_dir_Uncaught(temp_dir, failing, st) ==
    IF temp_dir \notin st.left
    THEN st
    ELSE IF temp_dir \in failing
    THEN [st EXCEPT !.attempts = Append(@, temp_dir), !.raised = TRUE]
    ELSE [st EXCEPT !.attempts = Append(@, temp_dir), !.left = @ \ {temp_dir}]

\* the body of the loop: the try block around os.path.exists and shutil.rmtree
remove_temp_dir(temp_dir, failing, st) ==
    IF temp_dir \notin st.left
    THEN st
    ELSE IF temp_dir \in failing
    THEN [st EXCEPT !.attempts = Append(@, temp_dir),
                    !.warnings = Append(@, temp_dir)]
    ELSE [st EXCEPT !.attempts = Append(@, temp_dir), !.left = @ \ {temp_dir}]

RECURSIVE cleanup_loop(_, _, _, _)
\* for temp_dir in self.temp_dirs, from the i-th on
cleanup_loop(temp_dirs, i, failing, st) ==
    IF i > Len(temp_dirs) \/ st.raised
    THEN st
    ELSE cleanup_loop(temp_dirs, i + 1, failing,
                      remove_temp_dir(temp_dirs[i], failing, st))

\* cleanup_temp_dirs(): temp_dirs are the registered directories, onDisk the
\* ones that exist, failing the ones whose shutil.rmtree raises.  The list is
\* cleared whatever happened; the result is what is left on disk.
cleanup_temp_dirs(temp_dirs, onDisk, failing) ==
    cleanup_loop(temp_dirs, 1, failing, CleanupStart(onDisk)).left

\* the calls of cleanup_temp_dirs on its own
MaxDirs == 3
TempDirs == 1..MaxDirs
TempDirLists ==
    UNION {[1..n -> TempDirs] : n \in 0..MaxDirs}

NoCleanupCall ==
    [called |-> FALSE, registered |-> <<>>, onDisk |-> {}, failing |-> {},
     temp_dirs |-> <<>>, run |-> CleanupStart({})]

(***************************************************************************)
(* utils/git_operations.py: GitOperations.clone_repository                 *)
(***************************************************************************)
\* Paths and names are texts: sequences of fragments.
Downloads == <<"./downloads">>
FreshLocation == <<"/data/new">>
BlockedLocation == <<"/etc/hosts">>
\* a directory of a share, whose path has words the error classes look for
SharedLocation == <<"/mnt/", "Network", "/", "Permission", "s">>
ClonePaths == {Downloads, FreshLocation, BlockedLocation, SharedLocation}

\* os.path.dirname of a location; "/data" is the one that may be missing
DataDir == <<"/data">>
Locations == ClonePaths \cup {DataDir}

dirname_of(path) ==
    CASE path = FreshLocation -> DataDir
      [] path = BlockedLocation -> <<"/etc">>
      [] path = SharedLocation -> <<"/mnt/", "Network">>
      [] OTHER -> <<".">>

\* os.path.exists(os.path.dirname(path))
dirname_exists(path, cp) ==
    dirname_of(path) \in DOMAIN cp => cp[dirname_of(path)] # "absent"

\* os.makedirs(path, exist_ok=True) went through: path and what is above it
\* are directories
makedirs(path, cp) ==
    [l \in DOMAIN cp |-> IF l = path \/ l = dirname_of(path) THEN "dir" ELSE cp[l]]

CloneNames == {<<"demo">>, <<"lib">>, <<"tools">>, <<"notes">>}

\* the destinations clone_repository is called on
CloneTargets ==
    ({Downloads} \X CloneNames) \cup ({FreshLocation, BlockedLocation} \X {<<"demo">>})
    \cup ({SharedLocation} \X {<<"demo">>, <<"lib">>})

\* the share holds demo, with files in it;
\* "./downloads" is a directory that holds lib (with foo.txt in it), tools
\* (an empty directory) and notes (a file); "/data/new" does not exist;
\* "/etc/hosts" is a file
CloneParentInit ==
    [lp \in Locations |->
        CASE lp \in {Downloads, SharedLocation} -> "dir"
          [] lp = BlockedLocation -> "file"
          [] OTHER -> "absent"]

CloneDestInit ==
    [d \in ClonePaths \X CloneNames |->
        IF d[1] = SharedLocation
        THEN (IF d[2] = <<"demo">> THEN "nonempty" ELSE "absent")
        ELSE IF d[1] # Downloads THEN "absent"
        ELSE CASE d[2] = <<"lib">> -> "nonempty"
               [] d[2] = <<"tools">> -> "empty"
               [] d[2] = <<"notes">> -> "file"
               [] OTHER -> "absent"]

\* os.path.join(local_path, repo_name)
repo_path_of(local_path, repo_name) == local_path \o <<"/">> \o repo_name

clone_url_of(repo_name) == <<"https://github.com/alice/">> \o repo_name \o <<".git">>

\* the native progress signals of a clone: max = 0 stands for no total
MaxCount == 3
NoTotal == [cur |-> 1, max |-> 0]
Started == [cur |-> 1, max |-> MaxCount]
Whole == [cur |-> MaxCount, max |-> MaxCount]
SignalSeqs ==
    {<<>>, <<NoTotal>>, <<Started>>, <<Started, Whole>>, <<NoTotal, Whole>>}

Delivery(pct, text) == [pct |-> pct, text |-> text]

RECURSIVE progress_handler_EverySignal(_)
progress_handler_EverySignal(sigs) ==
    IF sigs = <<>> THEN <<>>
    ELSE LET g == Head(sigs) IN
         <<Delivery(IF g.max # 0 THEN (g.cur * 100) \div g.max ELSE 0, "Cloning...")>>
         \o progress_handler_EverySignal(Tail(sigs))

\* _create_progress_handler: the deliveries made for the signals sigs
RECURSIVE progress_handler(_)
progress_handler(sigs) ==
    IF sigs = <<>> THEN <<>>
    ELSE LET g == Head(sigs) IN
         (IF g.max # 0
          THEN <<Delivery((g.cur * 100) \div g.max, "Cloning...")>>
          ELSE <<>>) \o progress_handler(Tail(sigs))

\* what the clone primitive (git clone) ends in: stderr of a failure
CloneOk == <<>>
HostUnreachable == <<"fatal: unable to access: Could not resolve host">>
WorkTreeDenied == <<"fatal: could not create work tree dir: ", "Permission", " denied">>
TransferTimeout == <<"fatal: the remote end hung up: ", "Timeout">>
CloneOutcomes == {CloneOk, HostUnreachable, WorkTreeDenied, TransferTimeout}

\* str(e) of the primitive's GitCommandError
git_command_error(clone_url, repo_path, stderr) ==
    <<"Cmd('git') failed due to: exit code(128) cmdline: git clone -v -- ">>
    \o clone_url \o <<" ">> \o repo_path \o <<" stderr: ">> \o stderr

\* the test of the destination before the clone
dest_conflict_AnyExisting(kind) == kind \in {"empty", "nonempty"}

dest_conflict(kind) == kind = "nonempty"

CloneResult(ret, kind, err, made, primitive, progress, parent, dest) ==
    [ret |-> ret, kind |-> kind, err |-> err, made |-> made,
     primitive |-> primitive, progress |-> progress, parent |-> parent,
     dest |-> dest]

\* clone_repository(clone_url, local_path, repo_name, progress_callback) with
\* the download location in state parent and the destination in state dest.
\* mkfail: os.makedirs is refused; outcome: what the primitive ends in; sigs:
\* the progress signals it gives before that.  In the result: ret is "path"
\* or "raised", kind the raise that failed it, err the raised text, made
\* whether a directory was created before the primitive ran, primitive
\* whether it was invoked, progress the deliveries to the callback, parent
\* and dest the states afterwards.
clone_repository(clone_url, local_path, repo_name, callback, parent, dest, mkfail, outcome, sigs) ==
    LET repo_path == repo_path_of(local_path, repo_name)
        wrap(text) == <<"Error cloning repository: ">> \o text
        made == parent = "absent"
        start == IF callback THEN <<Delivery(0, "Starting clone...")>> ELSE <<>>
        during == IF callback THEN progress_handler(sigs) ELSE <<>>
        done == IF callback THEN <<Delivery(100, "Clone completed!")>> ELSE <<>>
    IN  IF parent = "file"
        THEN CloneResult("raised", "makedirs", wrap(<<"File exists: ">> \o local_path),
                         FALSE, FALSE, <<>>, parent, dest)
        ELSE IF parent = "absent" /\ mkfail
        THEN CloneResult("raised", "makedirs",
                         wrap(<<"Permission", " denied: ">> \o local_path),
                         FALSE, FALSE, <<>>, parent, dest)
        ELSE IF dest = "file"
        THEN CloneResult("raised", "listdir", wrap(<<"Not a directory: ">> \o repo_path),
                         made, FALSE, <<>>, "dir", dest)
        ELSE IF dest_conflict(dest)
        THEN CloneResult("raised", "conflict",
                         wrap(<<"Directory '">> \o repo_path
                              \o <<"' ", "already exists", " and is not empty">>),
                         made, FALSE, <<>>, "dir", dest)
        ELSE IF outcome # CloneOk
        THEN CloneResult("raised", "git",
                         <<"Git command failed: ">>
                         \o git_command_error(clone_url, repo_path, outcome),
                         made, TRUE, start \o during, "dir", dest)
        ELSE CloneResult("path", "none", <<>>, made, TRUE,
                         start \o during \o done, "dir", "nonempty")

NoClone ==
    [called |-> FALSE, local_path |-> <<>>, repo_name |-> <<>>, callback |-> FALSE,
     destBefore |-> "absent", parentBefore |-> "absent",
     outcome |-> CloneOk, sigs |-> <<>>,
     r |-> CloneResult("none", "none", <<>>, FALSE, FALSE, <<>>, "absent", "absent")]

CloneIdle ==
    /\ cparent = CloneParentInit
    /\ cdest = CloneDestInit
    /\ cl = NoClone

\* a call of clone_repository
CloneRepository ==
    \E target \in CloneTargets, callback \in BOOLEAN :
    LET local_path == target[1]
        repo_name == target[2]
    IN
    \E mkfail \in IF cparent[local_path] = "absent" THEN BOOLEAN ELSE {FALSE} :
    \E outcome \in CloneOutcomes :
    \E sigs \in IF callback THEN SignalSeqs ELSE {<<>>} :
        LET r == clone_repository(clone_url_of(repo_name), local_path, repo_name,
                                  callback, cparent[local_path],
                                  cdest[<<local_path, repo_name>>],
                                  mkfail, outcome, sigs)
        IN  /\ (~r.primitive) => (outcome = CloneOk /\ sigs = <<>>)
            /\ cl' = [called |-> TRUE, local_path |-> local_path,
                      repo_name |-> repo_name, callback |-> callback,
                      destBefore |-> cdest[<<local_path, repo_name>>],
                      parentBefore |-> cparent[local_path],
                      outcome |-> outcome, sigs |-> sigs, r |-> r]
            /\ cparent' = IF r.parent = "dir" THEN makedirs(local_path, cparent)
                           ELSE cparent
            /\ cdest' = [cdest EXCEPT ![<<local_path, repo_name>>] = r.dest]
            /\ UNCHANGED <<authVars, upVars, dlVars, callVars>>

(***************************************************************************)
(* utils/git_operations.py: GitOperations.get_directory_size               *)
(***************************************************************************)
\* A directory is the sizes of its files in the order os.walk gives them.
MaxFiles == 3
MaxSize == 2
Directories == UNION {[1..n -> 0..MaxSize] : n \in 0..MaxFiles}

\* when the file that vanishes during the walk is removed: before os.walk
\* lists it, before os.path.exists, between os.path.exists and
\* os.path.getsize, or after its size was read
Moments == {"unlisted", "before_exists", "before_getsize", "after_getsize"}

\* the loop of get_directory_size from file i on, with total_size so far;
\* vanished is the index of the file that vanishes (0: none does)
RECURSIVE walk_from(_, _, _, _, _)
walk_from(files, i, total_size, vanished, moment) ==
    IF i > Len(files) THEN [raised |-> FALSE, total |-> total_size]
    ELSE IF i = vanished /\ moment \in {"unlisted", "before_exists"}
    THEN walk_from(files, i + 1, total_size, vanished, moment)
    ELSE IF i = vanished /\ moment = "before_getsize"
    THEN [raised |-> TRUE, total |-> total_size]
    ELSE walk_from(files, i + 1, total_size + files[i], vanished, moment)

\* get_directory_size(path): the except clause returns 0 for any raise
get_directory_size(files, vanished, moment) ==
    LET w == walk_from(files, 1, 0, vanished, moment)
    IN  [raised |-> FALSE, size |-> IF w.raised THEN 0 ELSE w.total]

NoSizeCall ==
    [called |-> FALSE, files |-> <<>>, vanished |-> 0, moment |-> "unlisted",
     r |-> [raised |-> FALSE, size |-> 0]]

\* a call of get_directory_size
GetDirectorySize ==
    /\ ~sz.called
    /\ \E files \in Directories :
       \E vanished \in 0..Len(files) :
       \E moment \in IF vanished = 0 THEN {"unlisted"} ELSE Moments :
          sz' = [called |-> TRUE, files |-> files, vanished |-> vanished,
                 moment |-> moment,
                 r |-> get_directory_size(files, vanished, moment)]
    /\ UNCHANGED <<authVars, upVars, cloneVars, dlVars, ls, sr, pat, dc, cu, ed, gi, cr, tool, da>>

(***************************************************************************)
(* utils/github_manager.py: get_repositories and search_repositories       *)
(***************************************************************************)
\* A name of the account is one fragment; spell gives its characters.  A name
\* that is not of the account is its own characters.
spell(name) ==
    CASE name = <<"demo">> -> <<"d", "e", "m", "o">>
      [] name = <<"lib">> -> <<"L", "i", "b">>
      [] name = <<"tools">> -> <<"t", "o", "o", "l", "s">>
      [] OTHER -> name

\* the account's repositories in the remote's order, as the remote holds
\* them: description and language are texts of characters, <<>> for none
AccountRepos ==
    << [name |-> <<"demo">>, private |-> FALSE, description |-> <<>>,
        language |-> <<"P", "y">>],
       [name |-> <<"lib">>, private |-> TRUE, description |-> <<"a", " ", "l", "i", "b">>,
        language |-> <<>>],
       [name |-> <<"tools">>, private |-> TRUE, description |-> <<"m", "y">>,
        language |-> <<"G", "o">>] >>

AccountNames == {AccountRepos[i].name : i \in 1..Len(AccountRepos)}

RECURSIVE SelectSeq2(_, _)
SelectSeq2(q, keep) ==
    IF q = <<>> THEN <<>>
    ELSE (IF Head(q) \in keep THEN <<Head(q)>> ELSE <<>>) \o SelectSeq2(Tail(q), keep)

RepoTypes == {"all", "public", "private"}
RepoTypeInputs == RepoTypes \cup {"forks"}

\* what the listing round trip can end in
ListRateLimited ==
    [cls |-> "GithubException", data |-> <<"API ", "Rate Limit", " exceeded">>,
     text |-> <<"403", " ", "API ", "Rate Limit", " exceeded">>]
ListForbidden == [cls |-> "GithubException", data |-> <<>>, text |-> <<"403">>]
ListNotFound == [cls |-> "Exception", data |-> <<>>, text |-> <<"404", " Not Found">>]
ListExcs == {NoExc, ListRateLimited, ListForbidden, ListNotFound, ConnectionFailed}

max_retries == 3

\* the remote gives the listing in pages of this many repositories
PageSize == 2

\* the type the code asks the remote for
scope_of_AlwaysAll(repo_type) == "all"

scope_of(repo_type) ==
    IF repo_type = "public" THEN "public"
    ELSE IF repo_type = "private" THEN "private"
    ELSE "all"

\* self.user.get_repos(type=...): the remote's listing for a type
get_repos(type) ==
    SelectSeq2(AccountRepos,
               {r \in {AccountRepos[i] : i \in 1..Len(AccountRepos)} :
                   \/ type = "all"
                   \/ type = "public" /\ ~r.private
                   \/ type = "private" /\ r.private})

NoDescription ==
    <<"N", "o", " ", "d", "e", "s", "c", "r", "i", "p", "t", "i", "o", "n">>

\* repo_info of one repository
repo_info(repo) ==
    [name |-> repo.name, private |-> repo.private,
     description |-> IF repo.description = <<>> THEN NoDescription ELSE repo.description,
     language |-> repo.language]

\* the two outer except clauses of get_repositories
list_error(e) ==
    IF e.cls = "GithubException"
    THEN <<"GitHub API error: ">> \o (IF e.data # <<>> THEN e.data ELSE e.text)
    ELSE IF contains(e.text, "rate limit")
    THEN <<"GitHub API ", "rate limit", " exceeded. Please try again later.">>
    ELSE IF HasFragment(e.text, "403")
    THEN <<"Access ", "forbidden", ". Please check your token permissions.">>
    ELSE IF HasFragment(e.text, "404")
    THEN <<"Resource not found. Please check your token and permissions.">>
    ELSE <<"Error fetching repositories: ">> \o e.text

\* What the environment does to one call: the attempts of get_repos raise the
\* exceptions of fails, one after the other, and the attempt after them
\* succeeds; the fetch of page pageFail raises e while the listing is iterated
\* (0: none does); bad[name] is the read that raises while the repository is
\* made into a record: "none", a "field" other than the name, or the "name".
NoListEnv ==
    [fails |-> <<>>, pageFail |-> 0, e |-> NoExc, bad |-> [n \in AccountNames |-> "none"]]

AttemptExcs == {ListRateLimited, ConnectionFailed}
FailSeqs == UNION {[1..n -> AttemptExcs] : n \in 0..max_retries}

ListEnvs ==
    {NoListEnv} \cup
    [fails : FailSeqs, pageFail : 0..2, e : ListExcs \ {NoExc},
     bad : {NoListEnv.bad}] \cup
    [fails : {<<>>}, pageFail : {0}, e : {NoExc},
     bad : [AccountNames -> {"none", "field", "name"}]]

\* the records of the repositories repos, those dropped whose field read raises
RECURSIVE repo_list_of(_, _)
repo_list_of(repos, bad) ==
    IF repos = <<>> THEN <<>>
    ELSE (IF bad[Head(repos).name] = "none" THEN <<repo_info(Head(repos))>> ELSE <<>>)
         \o repo_list_of(Tail(repos), bad)

ListResult(ok, repos, err, lp, reqs) ==
    [ok |-> ok, repos |-> repos, err |-> err, attempts |-> lp.attempts,
     sleeps |-> lp.sleeps, reqs |-> reqs]

\* the state of the retry loop: the attempts made, the calls of time.sleep(2),
\* whether the loop was left (done), by break (ok) or by raise (exc)
RetryStart ==
    [done |-> FALSE, ok |-> FALSE, attempts |-> 0, sleeps |-> 0, exc |-> NoExc]

attempt_failed_SleepsFirst(attempt, e, st) ==
    IF attempt = max_retries - 1
    THEN [st EXCEPT !.sleeps = @ + 1, !.done = TRUE, !.exc = e]
    ELSE [st EXCEPT !.sleeps = @ + 1]

\* the except clause of the loop: the last attempt's exception is raised
\* again, any other is logged and followed by the wait
attempt_failed(attempt, e, st) ==
    IF attempt = max_retries - 1
    THEN [st EXCEPT !.done = TRUE, !.exc = e]
    ELSE [st EXCEPT !.sleeps = @ + 1]

RECURSIVE retry_loop(_, _, _)
\* for attempt in range(max_retries), from attempt on
retry_loop(attempt, fails, st) ==
    IF st.done \/ attempt >= max_retries
    THEN st
    ELSE IF attempt + 1 > Len(fails)
    THEN [st EXCEPT !.attempts = @ + 1, !.done = TRUE, !.ok = TRUE]
    ELSE retry_loop(attempt + 1, fails,
                    attempt_failed(attempt, fails[attempt + 1],
                                   [st EXCEPT !.attempts = @ + 1]))

\* the for loop over the listing and the return, after the retry loop lp
\* was left by break
list_repos(repos, env, lp) ==
    LET pages == IF repos = <<>> THEN 1 ELSE (Len(repos) + PageSize - 1) \div PageSize
        \* the repositories iterated before the page pageFail is asked for
        before == IF env.pageFail \in 1..pages THEN (env.pageFail - 1) * PageSize
                  ELSE Len(repos)
        unnamed == {i \in 1..before : env.bad[repos[i].name] = "name"}
    IN  IF unnamed # {}
        THEN ListResult(FALSE, <<>>, list_error(ServerError), lp,
                        ((CHOOSE i \in unnamed : \A j \in unnamed : i <= j)
                         + PageSize - 1) \div PageSize)
        ELSE IF env.pageFail \in 1..pages
        THEN ListResult(FALSE, <<>>, list_error(env.e), lp, env.pageFail)
        ELSE ListResult(TRUE, repo_list_of(repos, env.bad), <<>>, lp, pages)

\* what follows the retry loop lp
after_retry(repo_type, env, lp) ==
    IF ~lp.ok
    THEN ListResult(FALSE, <<>>, list_error(lp.exc), lp, 0)
    ELSE list_repos(get_repos(scope_of(repo_type)), env, lp)

\* get_repositories(repo_type).  The retry loop is around the call of
\* get_repos only; the pages are fetched by the for loop after it, where a
\* raise ends the call.  A repository whose name cannot be read raises again
\* in the handler that would drop it, which ends the call too.
get_repositories(client, repo_type, env) ==
    IF client = None
    THEN ListResult(FALSE, <<>>,
                    <<"Error fetching repositories: ", "GitHub client not initialized">>,
                    RetryStart, 0)
    ELSE after_retry(repo_type, env, retry_loop(0, env.fails, RetryStart))

NoListCall ==
    [called |-> FALSE, repo_type |-> "all", env |-> NoListEnv,
     r |-> ListResult(FALSE, <<>>, <<>>, RetryStart, 0)]

\* a call of get_repositories on the manager of an authenticated session
GetRepositories ==
    /\ github_client # None
    /\ ~ls.called
    /\ \E repo_type \in RepoTypeInputs, env \in ListEnvs :
          ls' = [called |-> TRUE, repo_type |-> repo_type, env |-> env,
                 r |-> get_repositories(github_client, repo_type, env)]
    /\ UNCHANGED <<authVars, upVars, cloneVars, dlVars, sr, pat, sz, dc, cu, ed, gi, cr, tool, da>>

\* str.lower() of a text of characters
lower_char(c) ==
    CASE c = "A" -> "a" [] c = "B" -> "b" [] c = "G" -> "g" [] c = "L" -> "l"
      [] c = "N" -> "n" [] c = "P" -> "p" [] OTHER -> c

lower_text(t) == [i \in 1..Len(t) |-> lower_char(t[i])]

\* q in t
substring(q, t) ==
    \E i \in 0..(Len(t) - Len(q)) : SubSeq(t, i + 1, i + Len(q)) = q

SearchQueries == {<<>>, <<"l", "i", "b">>, <<"P", "y">>, <<"z">>}

\* search_repositories(query, repo_list); every record is one that
\* get_repositories makes, so no read of it raises
search_repositories_QueryNotLowered(query, repo_list) ==
    IF query = <<>> THEN repo_list
    ELSE SelectSeq2(repo_list,
             {r \in {repo_list[i] : i \in 1..Len(repo_list)} :
                 \/ substring(query, lower_text(spell(r.name)))
                 \/ substring(query, lower_text(r.description))
                 \/ r.language # <<>> /\ substring(query, lower_text(r.language))})

search_repositories(query, repo_list) ==
    IF query = <<>> THEN repo_list
    ELSE LET q == lower_text(query)
         IN  SelectSeq2(repo_list,
                 {r \in {repo_list[i] : i \in 1..Len(repo_list)} :
                     \/ substring(q, lower_text(spell(r.name)))
                     \/ substring(q, lower_text(r.description))
                     \/ r.language # <<>> /\ substring(q, lower_text(r.language))})

\* the records and queries search_repositories is called on
MaxRecords == 2
MaxQuery == 2
SearchRecords ==
    { [name |-> <<"a", "B">>, private |-> FALSE, description |-> <<"x">>,
       language |-> <<>>],
      [name |-> <<"x">>, private |-> TRUE, description |-> <<"B", "a">>,
       language |-> <<>>],
      [name |-> <<"x", "y">>, private |-> FALSE, description |-> <<"y">>,
       language |-> <<"A">>],
      [name |-> <<"y">>, private |-> TRUE, description |-> NoDescription,
       language |-> <<"b">>] }

RECURSIVE SeqsUpTo(_, _)
SeqsUpTo(S, n) ==
    IF n = 0 THEN {<<>>}
    ELSE LET shorter == SeqsUpTo(S, n - 1)
         IN  shorter \cup {Append(q, x) : q \in shorter, x \in S}

SearchInputs == SeqsUpTo({"a", "b", "B"}, MaxQuery)
RecordLists == SeqsUpTo(SearchRecords, MaxRecords)

NoSearchCall == [called |-> FALSE, query |-> <<>>, records |-> <<>>, result |-> <<>>]

\* a call of search_repositories
SearchRepositories ==
    /\ ~sr.called
    /\ \E query \in SearchInputs, records \in RecordLists :
          sr' = [called |-> TRUE, query |-> query, records |-> records,
                 result |-> search_repositories(query, records)]
    /\ UNCHANGED <<authVars, upVars, cloneVars, dlVars, ls, pat, sz, dc, cu, ed, gi, cr, tool, da>>

(***************************************************************************)
(* pages/01_Repository_List.py                                             *)
(***************************************************************************)
\* what the operator can have in the Download Location input
DownloadPathInputs ==
    {Downloads, <<>>, <<" ", " ">>, <<" ">> \o FreshLocation, BlockedLocation}

\* what the environment does to a download: mkdirfail refuses making the
\* location's parent, the rest is what clone_repository meets
NoDlEnv == [mkdirfail |-> FALSE, mkfail |-> FALSE, outcome |-> CloneOk, sigs |-> <<>>]
DlEnvs ==
    [mkdirfail : BOOLEAN, mkfail : BOOLEAN, outcome : CloneOutcomes, sigs : SignalSeqs]

NoCloneResult ==
    CloneResult("none", "none", <<>>, FALSE, FALSE, <<>>, "absent", "absent")

\* one call of download_repository: the workflow's end, the messages shown,
\* what the progress bar was given, the call of clone_repository
Dl(repo, state, msgs, bar, clone, cp, cd) ==
    [repo |-> repo, state |-> state, msgs |-> msgs, bar |-> bar, clone |-> clone,
     cparent |-> cp, cdest |-> cd]

\* update_progress: progress_bar.progress(min(percentage, 100))
RECURSIVE update_progress(_)
update_progress(deliveries) ==
    IF deliveries = <<>> THEN <<>>
    ELSE <<IF Head(deliveries).pct < 100 THEN Head(deliveries).pct ELSE 100>>
         \o update_progress(Tail(deliveries))

download_failed_PermissionFirst(err) ==
    IF contains(err, "permission")
    THEN <<"Download failed: Permission denied.">>
    ELSE IF contains(err, "already exists")
    THEN <<"Download failed: Directory already exists.">>
    ELSE IF contains(err, "network") \/ contains(err, "timeout")
    THEN <<"Download failed: Network error.">>
    ELSE <<"Download failed: ">> \o err

\* the except clause of the clone in download_repository
download_failed(err) ==
    IF contains(err, "already exists")
    THEN <<"Download failed: Directory already exists.">>
    ELSE IF contains(err, "permission")
    THEN <<"Download failed: Permission denied.">>
    ELSE IF contains(err, "network") \/ contains(err, "timeout")
    THEN <<"Download failed: Network error.">>
    ELSE <<"Download failed: ">> \o err

\* download_repository(repo, git_ops) in a run where the form's buttons and
\* input hold confirm, cancel and download_path
download_repository(name, confirm, cancel, download_path, cp, cd, env) ==
    LET path == strip(download_path)
        missing == ~dirname_exists(path, cp) /\ path # Downloads
        cp1 == IF missing THEN [cp EXCEPT ![dirname_of(path)] = "dir"] ELSE cp
        r == clone_repository(clone_url_of(name), path, name, TRUE, cp1[path],
                              cd[<<path, name>>], env.mkfail, env.outcome, env.sigs)
        cp2 == IF r.parent = "dir" THEN makedirs(path, cp1) ELSE cp1
        cd2 == [cd EXCEPT ![<<path, name>>] = r.dest]
        bar == <<10>> \o update_progress(r.progress)
    IN  IF cancel
        THEN Dl(name, "Cancelled", <<Msg("info", <<"Download cancelled.">>)>>,
                <<>>, NoCloneResult, cp, cd)
        ELSE IF ~confirm
        THEN Dl(name, "Idle", <<>>, <<>>, NoCloneResult, cp, cd)
        ELSE IF path = <<>>
        THEN Dl(name, "Failed",
                <<Msg("error", <<"Please enter a valid download path.">>)>>,
                <<>>, NoCloneResult, cp, cd)
        ELSE IF missing /\ env.mkdirfail
        THEN Dl(name, "Failed",
                <<Msg("error", <<"Cannot create download directory: ",
                                 "Permission", " denied">>)>>,
                <<0>>, NoCloneResult, cp, cd)
        ELSE IF r.ret = "raised"
        THEN Dl(name, "Failed", <<Msg("error", download_failed(r.err))>>,
                <<0>> \o bar, r, cp2, cd2)
        ELSE Dl(name, "Done",
                <<Msg("success", <<"Repository downloaded successfully to: ">>
                                 \o repo_path_of(path, name)),
                  Msg("info", <<"Directory size">>)>>,
                <<0>> \o bar, r, cp2, cd2)

NoDownloadCall ==
    [called |-> FALSE, repo |-> <<>>, path |-> <<>>, env |-> NoDlEnv,
     state |-> "Idle", msgs |-> <<>>, bar |-> <<>>, clone |-> NoCloneResult]

\* a call of download_repository whose form is confirmed with the location path
DownloadConfirmed ==
    /\ ~dc.called
    /\ \E name \in AccountNames, path \in {Downloads, FreshLocation, SharedLocation} :
       \E env \in {v \in DlEnvs : v.sigs \in {<<>>, <<Started>>}} :
          LET r == download_repository(name, TRUE, FALSE, path, cparent, cdest, env)
          IN  /\ (~r.clone.primitive) => (env.outcome = CloneOk /\ env.sigs = <<>>)
              /\ dc' = [called |-> TRUE, repo |-> name, path |-> path, env |-> env,
                        state |-> r.state, msgs |-> r.msgs, bar |-> r.bar,
                        clone |-> r.clone]
              /\ cparent' = r.cparent
              /\ cdest' = r.cdest
    /\ UNCHANGED <<authVars, upVars, cl, dlVars, ls, sr, pat, sz, cu, ed, gi, cr, tool, da>>

\* one more call of download_repository in the session, after the first: the
\* form is confirmed for a repository and a location, and the environment
\* does to the clone what env says
DownloadAgain ==
    /\ dc.called
    /\ ~da.called
    /\ \E name \in AccountNames, path \in {Downloads, FreshLocation, SharedLocation} :
       \E env \in {v \in DlEnvs : v.sigs = <<>> /\ ~v.mkdirfail} :
          LET r == download_repository(name, TRUE, FALSE, path, cparent, cdest, env)
          IN  /\ (~r.clone.primitive) => env.outcome = CloneOk
              /\ da' = [called |-> TRUE, repo |-> name, path |-> path, env |-> env,
                        state |-> r.state, msgs |-> r.msgs, bar |-> r.bar,
                        clone |-> r.clone]
              /\ cparent' = r.cparent
              /\ cdest' = r.cdest
    /\ UNCHANGED <<authVars, upVars, cl, dlVars, ls, sr, pat, sz, dc, cu, ed, gi, cr, tool>>

\* what triggers a run of the page: nothing but a rerun, or the button the
\* operator pressed
NoEvent == [kind |-> "none", repo |-> <<>>, path |-> <<>>]
Click(name) == [kind |-> "click", repo |-> name, path |-> <<>>]
Confirm(name, path) == [kind |-> "confirm", repo |-> name, path |-> path]
Cancel(name) == [kind |-> "cancel", repo |-> name, path |-> <<>>]

\* the loop over page_repos.  A button is True only in the run its press
\* triggered, and only if that run renders it.
\* what showing one repository leaves: r is what download_repository did,
\* called when the repository's flag is set or its Download button is pressed
after_repo(st, name, flag, r) ==
    IF flag
    THEN [downloading |-> [st.downloading EXCEPT ![name] = FALSE],
          cparent |-> r.cparent, cdest |-> r.cdest,
          calls |-> Append(st.calls,
                           [repo |-> r.repo, state |-> r.state,
                            msgs |-> r.msgs, bar |-> r.bar,
                            clone |-> r.clone]),
          forms |-> st.forms \cup {name}]
    ELSE st

RECURSIVE render_repos(_, _, _, _)
render_repos(repos, ev, env, st) ==
    IF repos = <<>> THEN st
    ELSE render_repos(Tail(repos), ev, env,
             after_repo(st, Head(repos).name,
                        st.downloading[Head(repos).name]
                            \/ (ev.kind = "click" /\ ev.repo = Head(repos).name),
                        download_repository(Head(repos).name,
                            ev.kind = "confirm" /\ ev.repo = Head(repos).name,
                            ev.kind = "cancel" /\ ev.repo = Head(repos).name,
                            ev.path, st.cparent, st.cdest, env)))

\* the except clause around the loading of the repositories
load_failed(err) ==
    IF contains(err, "rate limit") THEN <<"GitHub API rate limit exceeded.">>
    ELSE IF HasFragment(err, "403") \/ contains(err, "forbidden")
    THEN <<"Access forbidden.">>
    ELSE IF HasFragment(err, "404") THEN <<"Resource not found.">>
    ELSE <<"Error loading repositories: ">> \o err

\* the listing of a page run: e is raised when its first page is fetched
ListFailure(e) ==
    IF e = NoExc THEN NoListEnv ELSE [NoListEnv EXCEPT !.pageFail = 1, !.e = e]

ListRun(page, msgs, listed, st) ==
    [page |-> page, msgs |-> msgs, listed |-> listed, st |-> st]

\* main() from the check of the session on: git is what
\* validate_git_installation returned, g what get_repositories did and
\* repositories what the search kept of it
main_shown(ev, env, git, g, repositories) ==
    LET st0 == [downloading |-> downloading, cparent |-> cparent, cdest |-> cdest,
                calls |-> <<>>, forms |-> {}]
    IN  IF ~authenticated
        THEN ListRun("stop",
                     <<Msg("error", <<"Please authenticate first from the main page.">>)>>,
                     {}, st0)
        ELSE IF github_client = None
        THEN ListRun("raised",
                     <<Msg("error", <<"An unexpected error occurred: ",
                                      "GitHub client cannot be None">>)>>, {}, st0)
        ELSE IF ~git.valid
        THEN ListRun("no_git", <<Msg("error", <<"Git installation issue: ", git.msg>>)>>,
                     {}, st0)
        ELSE IF ~g.ok
        THEN ListRun("load_failed", <<Msg("error", load_failed(g.err))>>, {}, st0)
        ELSE IF repositories = <<>>
        THEN ListRun("empty",
                     <<Msg("info", <<"No repositories found matching your criteria.">>)>>,
                     {}, st0)
        ELSE ListRun("listed", <<>>,
                     {repositories[i].name : i \in 1..Len(repositories)},
                     render_repos(repositories, ev, env, st0))

\* the search of what was loaded
main_loaded(ev, search_query, env, git, g) ==
    main_shown(ev, env, git, g, search_repositories(search_query, g.repos))

\* main() of the page, run with the widgets holding repo_type and
\* search_query and with the event ev
repository_list_main(ev, repo_type, search_query, probe, e, env) ==
    main_loaded(ev, search_query, env, validate_git_installation(probe),
                get_repositories(github_client, repo_type, ListFailure(e)))

MaxRuns == 3

(***************************************************************************)
(* pages/03_Code_Editor.py                                                 *)
(***************************************************************************)
\* The repository edited holds one text file: its content in the working
\* tree, in the index and in the last commit.
Contents == {"old", "new"}
Tree(work, index, head) == [work |-> work, index |-> index, head |-> head]
TreeInit == Tree("old", "old", "old")

\* what a run of the page did: the messages shown, the operations of git
\* made (ops) and started (attempted), the widgets shown (offered)
EditorRun(page, msgs, ops, attempted, offered, tree) ==
    [page |-> page, msgs |-> msgs, ops |-> ops, attempted |-> attempted,
     offered |-> offered, tree |-> tree]

\* The widgets of the page.  A run is triggered by one of them ("none": the
\* page is opened); st.button is True only for the button that triggered the
\* run.
FileButton == "file"
DirButton == "dir"
TextArea == "File Content:"
SaveFile == "Save File"
SaveAndCommit == "Save & Commit"
CommitChanges == "Commit Changes"
EditorEvents ==
    {"none", FileButton, DirButton, TextArea, SaveFile, SaveAndCommit, CommitChanges}

\* what select_local_repository gives and edit_repository_files finds: no
\* repository chosen, a directory git.Repo cannot open, a repository
Selections == {"none", "repo_error", "repo"}

\* save_file(file_path, content): a failure to write is shown, never raised
save_file(content, wfail, tree) ==
    IF wfail
    THEN [msgs |-> <<Msg("error", <<"Error saving file: ">>)>>, tree |-> tree]
    ELSE [msgs |-> <<Msg("success", <<"File saved">>)>>,
          tree |-> [tree EXCEPT !.work = content]]

\* repo.is_dirty(): the index differs from the last commit, or the working
\* tree from the index
is_dirty(tree) == tree.index # tree.head \/ tree.work # tree.index

\* the branch of the button "Commit Changes": t is the tree after the add
commit_changes(msgs, pushFails, t) ==
    IF pushFails
    THEN EditorRun("edit",
                   msgs \o <<Msg("error", <<"Commit successful but push failed: ">>)>>,
                   <<"add", "commit">>, <<"add", "commit", "push">>,
                   {CommitChanges}, [t EXCEPT !.head = t.index])
    ELSE EditorRun("edit",
                   msgs \o <<Msg("success", <<"Changes committed and pushed to GitHub!">>)>>,
                   <<"add", "commit", "push">>, <<"add", "commit", "push">>,
                   {CommitChanges}, [t EXCEPT !.head = t.index])

\* save_and_commit(file_path, content, repo_path, git_ops), called in a run
\* that ev triggered: addFails is whether running git for repo.git.add raises,
\* pushFails whether origin.push() raises.
save_and_commit(ev, content, wfail, addFails, pushFails, tree) ==
    LET s == save_file(content, wfail, tree) IN
    IF addFails
    THEN EditorRun("edit", s.msgs \o <<Msg("error", <<"Error committing changes: ">>)>>,
                   <<>>, <<"add">>, {}, s.tree)
    ELSE IF ~is_dirty([s.tree EXCEPT !.index = s.tree.work])
    THEN EditorRun("edit", s.msgs \o <<Msg("info", <<"No changes to commit.">>)>>,
                   <<"add">>, <<"add">>, {}, [s.tree EXCEPT !.index = s.tree.work])
    ELSE IF ev = CommitChanges
    THEN commit_changes(s.msgs, pushFails, [s.tree EXCEPT !.index = s.tree.work])
    ELSE EditorRun("edit", s.msgs, <<"add">>, <<"add">>, {CommitChanges},
                   [s.tree EXCEPT !.index = s.tree.work])

\* edit_file(file_path, repo_path, git_ops): the text area and the two buttons
edit_file(ev, content, wfail, addFails, pushFails, tree) ==
    LET shown == {FileButton, DirButton, TextArea, SaveFile, SaveAndCommit} IN
    IF ev = SaveFile
    THEN EditorRun("edit", save_file(content, wfail, tree).msgs, <<>>, <<>>, shown,
                   save_file(content, wfail, tree).tree)
    ELSE IF ev = SaveAndCommit
    THEN [save_and_commit(ev, content, wfail, addFails, pushFails, tree)
             EXCEPT !.offered = @ \cup shown]
    ELSE EditorRun("edit", <<>>, <<>>, <<>>, shown, tree)

\* browse_files and what edit_repository_files does with its result.  A file
\* is selected only in the run the click on its button triggered.  Once a
\* click on a directory has set st.session_state.current_path, browse_files
\* calls itself on that path without end when no file is clicked: the second
\* listing makes the buttons of the first again, which raises, and the error
\* is shown.
edit_repository_files(ev, current_path, content, wfail, addFails, pushFails, tree) ==
    IF ev = FileButton
    THEN edit_file(ev, content, wfail, addFails, pushFails, tree)
    ELSE IF current_path
    THEN EditorRun("browse", <<Msg("error", <<"Error browsing files: ">>)>>,
                   <<>>, <<>>, {FileButton, DirButton}, tree)
    ELSE EditorRun("browse", <<>>, <<>>, <<>>, {FileButton, DirButton}, tree)

\* main(): ev is the widget that triggered the run, content the text of the
\* text area, current_path whether st.session_state.current_path is set.  The
\* page builds GitOperations and never calls validate_git_installation.
code_editor_main(ev, sel, current_path, content, wfail, addFails, pushFails, tree) ==
    IF ~authenticated
    THEN EditorRun("stop",
                   <<Msg("error", <<"Please authenticate first from the main page.">>)>>,
                   <<>>, <<>>, {}, tree)
    ELSE IF github_client = None
    THEN EditorRun("no_client",
                   <<Msg("error", <<"An unexpected error occurred: ">>)>>,
                   <<>>, <<>>, {}, tree)
    ELSE IF sel = "none"
    THEN EditorRun("select", <<>>, <<>>, <<>>, {}, tree)
    ELSE IF sel = "repo_error"
    THEN EditorRun("select", <<Msg("error", <<"Error accessing repository: ">>)>>,
                   <<>>, <<>>, {}, tree)
    ELSE edit_repository_files(ev, current_path, content, wfail, addFails,
                               pushFails, tree)

EditorIdle ==
    [ev |-> "none", current_path |-> FALSE,
     run |-> EditorRun("none", <<>>, <<>>, <<>>, {}, TreeInit)]

\* a run of the page: probe is what `git --version` would do during the run.
\* A widget triggers a run only when the last run showed it; a click on a
\* directory sets current_path and the run starts again (st.rerun) with no
\* widget triggering it.  With no git to run, repo.git.add raises.
CodeEditorRun ==
    /\ \E ev \in EditorEvents, sel \in Selections, probe \in GitProbes :
       \E content \in Contents, wfail \in BOOLEAN, addFails \in BOOLEAN :
       \E pushFails \in BOOLEAN :
          /\ ev # "none" => ev \in ed.run.offered
          /\ probe = "missing" => addFails
          /\ tool' = probe
          /\ (ev # FileButton \/ sel # "repo") =>
                (content = "old" /\ ~wfail /\ addFails /\ ~pushFails)
          /\ LET cd == ev = DirButton /\ sel = "repo" /\ authenticated
                       /\ github_client # None
                 cp == ed.current_path \/ cd
             IN  ed' = [ev |-> ev, current_path |-> cp,
                        run |-> code_editor_main(IF cd THEN "none" ELSE ev, sel, cp,
                                                 content, wfail, addFails, pushFails,
                                                 ed.run.tree)]
    /\ UNCHANGED <<authVars, upVars, cloneVars, dlVars, opVars>>

NoListRun ==
    [ev |-> NoEvent, page |-> "none", msgs |-> <<>>, calls |-> <<>>]

CallsIdle ==
    /\ ls = NoListCall
    /\ sr = NoSearchCall
    /\ pat = NoPatCall
    /\ sz = NoSizeCall
    /\ dc = NoDownloadCall
    /\ cu = NoCleanupCall
    /\ ed = EditorIdle
    /\ gi = NoIdentityCall
    /\ cr = NoCreateCall
    /\ tool = "ok"
    /\ da = NoDownloadCall

DlIdle ==
    /\ downloading = [n \in AccountNames |-> FALSE]
    /\ widgets = [repo_type |-> "all", search_query |-> <<>>, listed |-> {},
                  forms |-> {}, runs |-> 0]
    /\ dl = NoListRun

\* what a run leaves in the session and on disk: r is what main() did
PageDone(ev, repo_type, search_query, r) ==
    /\ dl' = [ev |-> ev, page |-> r.page, msgs |-> r.msgs, calls |-> r.st.calls]
    /\ widgets' = [repo_type |-> repo_type, search_query |-> search_query,
                   listed |-> r.listed, forms |-> r.st.forms,
                   runs |-> widgets.runs + 1]
    /\ downloading' = r.st.downloading
    /\ cparent' = r.st.cparent
    /\ cdest' = r.st.cdest
    /\ UNCHANGED <<authVars, upVars, cl, opVars, ed>>

\* a run of the page
PageRun(ev, repo_type, search_query) ==
    /\ widgets.runs < MaxRuns
    /\ \E probe \in GitProbes :
       \E e \in IF validate_git_installation(probe).valid THEN ListExcs ELSE {NoExc} :
       \E env \in IF ev.kind = "confirm" /\ downloading[ev.repo] THEN DlEnvs ELSE {NoDlEnv} :
          /\ tool' = probe
          /\ PageDone(ev, repo_type, search_query,
                      repository_list_main(ev, repo_type, search_query, probe, e, env))

\* the operator opens the page or changes a filter
Rerun ==
    \E repo_type \in RepoTypes, search_query \in SearchQueries :
        PageRun(NoEvent, repo_type, search_query)

\* the operator presses Download on a repository the page lists
ClickDownload ==
    \E name \in widgets.listed :
        PageRun(Click(name), widgets.repo_type, widgets.search_query)

\* the operator presses Start Download in a download form the page shows
ConfirmDownload ==
    \E name \in widgets.forms, path \in DownloadPathInputs :
        PageRun(Confirm(name, path), widgets.repo_type, widgets.search_query)

\* the operator presses Cancel in a download form the page shows
CancelDownload ==
    \E name \in widgets.forms :
        PageRun(Cancel(name), widgets.repo_type, widgets.search_query)

(***************************************************************************)
(* pages/02_Upload_Project.py                                              *)
(***************************************************************************)
MaxTemps == 1
MaxCommits == 2


\* What one run of the page did: the form submitted (page), the workflow's
\* end (state), the messages shown (msgs), the requests made to the remote
\* (reqs), the repository create_repository made (created), what
\* initialize_and_push returned (pushRet), its steps (ops) and its push
\* (push), the temporary directory made (temp), the fault the environment
\* injected (fault), the folder initialize_and_push was called on (dir), and
\* whether it held a change (hadChange) and no repository (fresh) at the call.
UpRun(page, state, msgs, reqs, created, r, temp, fault, d) ==
    [page |-> page, state |-> state, msgs |-> msgs, reqs |-> reqs,
     created |-> created, pushRet |-> r.ret, ops |-> r.ops, push |-> r.push,
     temp |-> temp, fault |-> fault, hadChange |-> d.pending, fresh |-> ~d.repo,
     dir |-> d.id]

NotCalled == PushResult("not_called", Folder(<<"", 0>>, "missing", FALSE, FALSE),
                        <<>>, <<>>, "not_called", <<>>)

NoFolder == Folder(<<"", 0>>, "missing", FALSE, TRUE)

NoRun == UpRun("none", "Idle", <<>>, <<>>, None, NotCalled, None, "none", NoFolder)

Stopped(page, text) ==
    UpRun(page, "Failed", <<Msg("error", text)>>, <<>>, None, NotCalled, None,
          "none", NoFolder)

UpIdle ==
    /\ remote = RemoteInit
    /\ disk = DiskInit
    /\ tempOnDisk = {}
    /\ tempMade = 0
    /\ up = NoRun

upload_main_NoGitCheck(probe) ==
    IF ~authenticated THEN "stop"
    ELSE IF github_client = None THEN "no_client"
    ELSE "ready"

\* main(), up to the forms: "ready" when the forms are shown
upload_main(probe) ==
    IF ~authenticated THEN "stop"
    ELSE IF github_client = None THEN "no_client"
    ELSE IF ~validate_git_installation(probe).valid THEN "no_git"
    ELSE "ready"

upload_main_error(page, probe) ==
    CASE upload_main(probe) = "stop" ->
            Stopped(page, <<"Please authenticate first from the main page.">>)
      [] upload_main(probe) = "no_client" ->
            Stopped(page, <<"An unexpected error occurred: ",
                            "GitHub client cannot be None">>)
      [] OTHER ->
            Stopped(page, <<"Git installation issue: ",
                            validate_git_installation(probe).msg>>)

\* the except clause around initialize_and_push in upload_folder_to_github
folder_push_failed_Swallowed(err) == <<Msg("warning", <<"No files were committed">>)>>

folder_push_failed(err) ==
    <<Msg("error", <<"Failed to push to repository: ">> \o err)>>

\* the outer except clause of upload_files_to_github
files_failed(err) == <<Msg("error", <<"Upload failed: ">> \o err)>>

\* upload_folder_to_github(local_path, repo_name, ...): e is what the
\* transport does to the creation request, fault the step of
\* initialize_and_push that fails
upload_folder_to_github(local_path, repo_name, e, fault) ==
    LET fail(text) == Stopped("folder", text) IN
    IF local_path = "" \/ repo_name = ""
    THEN /\ up' = fail(<<"Please provide both local path and repository name.">>)
         /\ UNCHANGED <<remote, disk>>
    ELSE IF disk[local_path].kind = "missing"
    THEN /\ up' = fail(<<"Local path does not exist: ", local_path>>)
         /\ UNCHANGED <<remote, disk>>
    ELSE IF disk[local_path].kind # "dir"
    THEN /\ up' = fail(<<"Path is not a directory: ", local_path>>)
         /\ UNCHANGED <<remote, disk>>
    ELSE IF ~disk[local_path].entries
    THEN /\ up' = fail(<<"Directory is empty. Please select a directory with files.">>)
         /\ UNCHANGED <<remote, disk>>
    ELSE
      LET c == create_repository(repo_name, remote, e) IN
      IF ~c.ok
      THEN /\ up' = UpRun("folder", "Failed",
                          <<Msg("error", <<"Failed to create repository: ">> \o c.err)>>,
                          c.reqs, None, NotCalled, None, "none", NoFolder)
           /\ UNCHANGED <<remote, disk>>
      ELSE
        LET d == disk[local_path]
            r == initialize_and_push(d, repo_name, c.remote, fault)
        IN  /\ remote' = r.remote
            /\ disk' = [disk EXCEPT ![local_path] = r.dir]
            /\ up' = UpRun("folder",
                           CASE r.ret = "true" -> "Done"
                             [] r.ret = "false" -> "NoOp"
                             [] OTHER -> "Failed",
                           CASE r.ret = "true" ->
                                  <<Msg("success", <<"Project uploaded successfully!">>)>>
                             [] r.ret = "false" ->
                                  <<Msg("warning", <<"No files were committed">>)>>
                             [] OTHER -> folder_push_failed(r.err),
                           c.reqs, Some(repo_name), r, None, fault, d)

\* upload_files_to_github(uploaded_files, repo_name, ...): tfault is the step
\* of the temporary directory's setup that fails ("mkdtemp", "write" or
\* "none"), rmfail whether shutil.rmtree raises in the cleanup
upload_files_to_github(files, repo_name, e, fault, tfault, rmfail) ==
    IF repo_name = ""
    THEN /\ up' = Stopped("files", <<"Please provide a repository name.">>)
         /\ UNCHANGED <<remote, tempOnDisk, tempMade>>
    ELSE IF tfault = "mkdtemp"
    THEN /\ up' = UpRun("files", "Failed", files_failed(<<"cannot make a directory">>),
                        <<>>, None, NotCalled, None, tfault, NoFolder)
         /\ UNCHANGED <<remote, tempOnDisk, tempMade>>
    ELSE
      LET t == tempMade + 1
          temp_dirs == <<t>>
          left == cleanup_temp_dirs(temp_dirs, tempOnDisk \cup {t},
                                    IF rmfail THEN {t} ELSE {})
      IN
      /\ tempMade' = t
      /\ tempOnDisk' = left
      /\ IF tfault = "write"
         THEN /\ up' = UpRun("files", "Failed", files_failed(<<"cannot write the file">>),
                             <<>>, None, NotCalled, Some(t), tfault, NoFolder)
              /\ UNCHANGED remote
         ELSE
           LET c == create_repository(repo_name, remote, e) IN
           IF ~c.ok
           THEN /\ up' = UpRun("files", "Failed", files_failed(c.err), c.reqs, None,
                               NotCalled, Some(t), "none", NoFolder)
                /\ UNCHANGED remote
           ELSE
             LET d == TempFolder(t, files)
                 r == initialize_and_push(d, repo_name, c.remote, fault)
             IN  /\ remote' = r.remote
                 /\ up' = UpRun("files",
                                CASE r.ret = "true" -> "Done"
                                  [] r.ret = "false" -> "NoOp"
                                  [] OTHER -> "Failed",
                                CASE r.ret = "true" ->
                                       <<Msg("success", <<"Files uploaded successfully!">>)>>
                                  [] r.ret = "false" ->
                                       <<Msg("warning", <<"No files were committed.">>)>>
                                  [] OTHER -> files_failed(r.err),
                                c.reqs, Some(repo_name), r, Some(t), fault, d)

\* the validation at the head of upload_folder_to_github
folder_valid(local_path, repo_name) ==
    /\ local_path # "" /\ repo_name # ""
    /\ disk[local_path].kind = "dir"
    /\ disk[local_path].entries

\* a run of the page in which the operator submits the folder form
UploadFolder ==
    \E probe \in GitProbes :
        /\ UNCHANGED <<authVars, cloneVars, dlVars, opVars, ed, tempOnDisk, tempMade>>
        /\ tool' = probe
        /\ IF upload_main(probe) # "ready"
           THEN /\ up' = upload_main_error("folder", probe)
                /\ UNCHANGED <<remote, disk>>
           ELSE \E local_path \in LocalPathInputs, repo_name \in RepoNameInputs :
                \E e \in IF folder_valid(local_path, repo_name)
                         THEN CreateExcs ELSE {NoExc} :
                \E fault \in IF /\ folder_valid(local_path, repo_name)
                                /\ create_repository(repo_name, remote, e).ok
                             THEN GitFaults ELSE {"none"} :
                    upload_folder_to_github(local_path, repo_name, e, fault)

\* a run of the page in which the operator submits the file form
UploadFiles ==
    \E probe \in GitProbes :
        /\ UNCHANGED <<authVars, cloneVars, dlVars, opVars, ed, disk>>
        /\ tool' = probe
        /\ IF upload_main(probe) # "ready"
           THEN /\ up' = upload_main_error("files", probe)
                /\ UNCHANGED <<remote, tempOnDisk, tempMade>>
           ELSE /\ tempMade < MaxTemps
                /\ \E repo_name \in RepoNameInputs :
                   \E tfault \in IF repo_name = "" THEN {"none"}
                                 ELSE {"none", "mkdtemp", "write"} :
                   \E rmfail \in IF repo_name = "" \/ tfault = "mkdtemp"
                                 THEN {FALSE} ELSE BOOLEAN :
                   \E e \in IF repo_name = "" \/ tfault # "none"
                            THEN {NoExc} ELSE CreateExcs :
                   \E files \in IF /\ repo_name # "" /\ tfault = "none"
                                   /\ create_repository(repo_name, remote, e).ok
                                THEN FileSets ELSE {FileNames} :
                   \E fault \in IF /\ repo_name # "" /\ tfault = "none"
                                   /\ create_repository(repo_name, remote, e).ok
                                THEN GitFaults ELSE {"none"} :
                        upload_files_to_github(files, repo_name, e, fault, tfault, rmfail)

\* the operator adds or changes a file in a local folder that an upload has
\* made a repository of (what a folder holds before its first upload is what
\* DiskInit gives it)
EditFolder ==
    \E p \in LocalPaths :
        /\ disk[p].kind = "dir"
        /\ disk[p].repo
        /\ ~disk[p].pending
        /\ Len(disk[p].head) < MaxCommits
        /\ disk' = [disk EXCEPT ![p].pending = TRUE, ![p].entries = TRUE]
        /\ UNCHANGED <<authVars, cloneVars, dlVars, callVars, remote, tempOnDisk, tempMade, up>>

(***************************************************************************)
(* app.py: the landing page's form, authenticate_user, logout_user         *)
(***************************************************************************)
DeveloperNames == {"", "dev"}
DefaultPats == {TokEmpty, TokPlaceholder, TokA}
Surfaces == {"get_user", "login"}
MaxAuthCalls == 2

NoAuthRet == AuthResult(FALSE, <<>>, None, 0, <<>>, "none", NoExc)

\* show_landing_page: an empty token field falls back to the configured one
effective_token(typed, default_pat) ==
    IF typed = <<>> /\ default_pat # <<>> /\ default_pat # TokPlaceholder
    THEN default_pat
    ELSE typed

\* utils/auth.py: init_session_state on an empty session
InitSession ==
    /\ authenticated = FALSE
    /\ github_client = None
    /\ user_info = None
    /\ developer_name = ""
    /\ github_token = <<>>

AuthInit ==
    /\ InitSession
    /\ UpIdle
    /\ CloneIdle
    /\ DlIdle
    /\ CallsIdle
    /\ authRet = NoAuthRet
    /\ infoRet = "not_called"
    /\ authCalls = 0
    /\ authUi = <<>>

\* authenticate_user(developer_name, github_token), submitted from the landing
\* page (shown while not authenticated).  e1 and e2 are what the round trips of
\* authenticate and of get_user_info end in.
authenticate_user(name, token, surface, e1, e2) ==
    /\ ~authenticated
    /\ UNCHANGED <<upVars, cloneVars, dlVars, callVars>>
    /\ IF name = ""
       THEN /\ authUi' = <<"error", "Please enter your developer name.">>
            /\ UNCHANGED <<github_client, authenticated, user_info, developer_name,
                           github_token, authRet, infoRet, authCalls>>
       ELSE IF token = <<>>
       THEN /\ authUi' = <<"error", "Please enter your GitHub Personal Access Token.">>
            /\ UNCHANGED <<github_client, authenticated, user_info, developer_name,
                           github_token, authRet, infoRet, authCalls>>
       ELSE
         /\ authCalls < MaxAuthCalls
         /\ LET r == authenticate(github_client, token, surface, e1) IN
            /\ authRet' = r
            /\ authCalls' = authCalls + 1
            /\ github_client' = r.client
            /\ IF r.success
               THEN LET u == get_user_info(r.client, e2) IN
                    /\ infoRet' = u.status
                    /\ IF u.info # None
                       THEN /\ authenticated' = TRUE
                            /\ developer_name' = name
                            /\ github_token' = token
                            /\ user_info' = u.info
                            /\ authUi' = <<"success">> \o r.message
                       ELSE /\ authUi' = <<"error", "Failed to retrieve user information.">>
                            /\ UNCHANGED <<authenticated, developer_name,
                                           github_token, user_info>>
               ELSE /\ infoRet' = "not_called"
                    /\ authUi' = <<"error">> \o r.message
                    /\ UNCHANGED <<authenticated, developer_name, github_token, user_info>>

\* the operator submits the landing page's form; the environment decides how
\* the round trips end
AuthenticateUser ==
    \E name \in DeveloperNames, typed \in Tokens, default_pat \in DefaultPats :
        LET token == effective_token(typed, default_pat)
            t == strip(token)
            reaches == name # "" /\ token # <<>> /\ validate_pat_format(t)
        IN  \E surface \in IF reaches THEN Surfaces ELSE {"none"},
               e1 \in IF reaches THEN RoundTrip(t) ELSE {NoExc} :
                \E e2 \in IF reaches /\ e1 = NoExc THEN RoundTrip(t) ELSE {NoExc} :
                    authenticate_user(name, token, surface, e1, e2)

logout_user_KeepsAuth ==
    /\ authenticated
    /\ authenticated' = FALSE
    /\ user_info' = None
    /\ developer_name' = ""
    /\ github_token' = <<>>
    /\ authUi' = <<>>
    /\ UNCHANGED <<github_client, authRet, infoRet, authCalls>>
    /\ UNCHANGED <<upVars, cloneVars, dlVars, callVars>>

\* logout_user, from the dashboard (shown while authenticated): every key of
\* the session is deleted and init_session_state builds a new one
logout_user ==
    /\ authenticated
    /\ authenticated' = FALSE
    /\ github_client' = None
    /\ user_info' = None
    /\ developer_name' = ""
    /\ github_token' = <<>>
    /\ authUi' = <<>>
    /\ UNCHANGED <<authRet, infoRet, authCalls>>
    /\ UNCHANGED <<upVars, cloneVars, dlVars, callVars>>

AuthNext == AuthenticateUser \/ logout_user

SpecAuth == AuthInit /\ [][AuthNext]_vars

(***************************************************************************)
(* The session, with its identity read after authentication                *)
(***************************************************************************)
IdentityNext == AuthenticateUser \/ logout_user \/ GetUserInfo

SpecIdentity == AuthInit /\ [][IdentityNext]_vars

(***************************************************************************)
(* The upload page, opened in a session                                    *)
(***************************************************************************)
\* the session the page is opened in: none, or one made by a login
UpInit ==
    /\ UpIdle
    /\ CloneIdle
    /\ DlIdle
    /\ CallsIdle
    /\ authRet = NoAuthRet
    /\ infoRet = "not_called"
    /\ authCalls = 0
    /\ authUi = <<>>
    /\ \/ InitSession
       \/ /\ authenticated = TRUE
          /\ github_client = Some(TokA)
          /\ user_info = Some([login |-> Login(TokA)])
          /\ developer_name = "dev"
          /\ github_token = TokA

UpNext == UploadFolder \/ UploadFiles \/ EditFolder

SpecUpload == UpInit /\ [][UpNext]_vars

(***************************************************************************)
(* The upload page, and create_repository called on its own                *)
(***************************************************************************)
CreateNext == UploadFolder \/ UploadFiles \/ CreateRepository

SpecCreate == UpInit /\ [][CreateNext]_vars

(***************************************************************************)
(* clone_repository, called on the download locations                      *)
(***************************************************************************)
CloneInit ==
    /\ AuthInit

CloneNext == CloneRepository

SpecClone == CloneInit /\ [][CloneNext]_vars


(***************************************************************************)
(* The Repository List page in a session                                   *)
(***************************************************************************)
DownloadInit == UpInit

DownloadNext == Rerun \/ ClickDownload \/ ConfirmDownload \/ CancelDownload

SpecDownload == DownloadInit /\ [][DownloadNext]_vars

(***************************************************************************)
(* One call of get_repositories                                            *)
(***************************************************************************)
ListingNext == GetRepositories

SpecListing == UpInit /\ [][ListingNext]_vars

(***************************************************************************)
(* One call of search_repositories                                         *)
(***************************************************************************)
SearchNext == SearchRepositories

SpecSearch == UpInit /\ [][SearchNext]_vars

(***************************************************************************)
(* One call of validate_pat_format                                         *)
(***************************************************************************)
PatNext == ValidatePatFormat

SpecPat == UpInit /\ [][PatNext]_vars

(***************************************************************************)
(* One call of get_directory_size                                          *)
(***************************************************************************)
SizeNext == GetDirectorySize

SpecSize == UpInit /\ [][SizeNext]_vars

(***************************************************************************)
(* The code editor page, run again and again                               *)
(***************************************************************************)
EditorNext == CodeEditorRun

SpecEditor == UpInit /\ [][EditorNext]_vars

(***************************************************************************)
(* The three pages, a session staying on the page it opened first          *)
(***************************************************************************)
OnUploadPage == dl = NoListRun /\ ed = EditorIdle
OnListPage == up = NoRun /\ ed = EditorIdle
OnEditorPage == up = NoRun /\ dl = NoListRun

PagesNext ==
    \/ OnUploadPage /\ UploadFolder
    \/ OnUploadPage /\ UploadFiles
    \/ OnListPage /\ Rerun
    \/ OnListPage /\ ClickDownload
    \/ OnListPage /\ ConfirmDownload
    \/ OnListPage /\ CancelDownload
    \/ OnEditorPage /\ CodeEditorRun

SpecPages == UpInit /\ [][PagesNext]_vars

(***************************************************************************)
(* One call of cleanup_temp_dirs                                           *)
(***************************************************************************)
CleanupTempDirs ==
    /\ ~cu.called
    /\ \E temp_dirs \in TempDirLists, onDisk \in SUBSET TempDirs :
       \E failing \in SUBSET onDisk :
          LET run == cleanup_loop(temp_dirs, 1, failing, CleanupStart(onDisk))
          IN  cu' = [called |-> TRUE, registered |-> temp_dirs, onDisk |-> onDisk,
                     failing |-> failing,
                     temp_dirs |-> IF run.raised THEN temp_dirs ELSE <<>>,
                     run |-> run]
    /\ UNCHANGED <<authVars, upVars, cloneVars, dlVars, ls, sr, pat, sz, dc, ed, gi, cr, tool, da>>

CleanupNext == CleanupTempDirs

SpecCleanup == UpInit /\ [][CleanupNext]_vars

(***************************************************************************)
(* One call of download_repository with its form confirmed                 *)
(***************************************************************************)
ConfirmedNext == DownloadConfirmed

SpecConfirmed == UpInit /\ [][ConfirmedNext]_vars

(***************************************************************************)
(* Two calls of download_repository with the form confirmed                *)
(***************************************************************************)
AgainNext == DownloadConfirmed \/ DownloadAgain

SpecAgain == UpInit /\ [][AgainNext]_vars

(***************************************************************************)
(* Properties of the upload workflows                                      *)
(***************************************************************************)

AllSteps == <<"init", "add", "commit", "create_remote", "push">>

Shown(level) == \E i \in 1..Len(up.msgs) : up.msgs[i].level = level

\* C1: a folder upload with at least one new file, into a folder that holds no
\* repository yet and with no fault of the local tool or the transport, makes
\* the remote repository with its auto-init commit, initialize_and_push
\* returns true, and the remote branch main then holds exactly one commit
\* beyond the auto-init commit.
C1_UploadAddsOneCommit ==
    (/\ up.page = "folder" /\ up.created # None
     /\ up.hadChange /\ up.fresh /\ up.fault = "none")
    => /\ up.pushRet = "true"
       /\ remote[The(up.created)].exists
       /\ Len(remote[The(up.created)].main) = 2
       /\ remote[The(up.created)].main[1] = AutoInitCommit(The(up.created))

\* the part of C4 that is about the steps made: a commit is attempted only
\* when staging found a change; without a change the call returns false after
\* init and add alone; it returns true only after all five steps, in order
StagingGate ==
    up.pushRet # "not_called" =>
        /\ HasFragment(up.ops, "commit") => up.hadChange
        /\ (~up.hadChange /\ up.fault \notin {"init", "add"}) => up.pushRet = "false"
        /\ up.pushRet = "false" => up.ops = <<"init", "add">>
        /\ up.pushRet = "true" => up.ops = AllSteps
        /\ \E n \in 0..Len(AllSteps) : up.ops = SubSeq(AllSteps, 1, n)

\* C4: initialize_and_push goes past staging only when staging found a change:
\* without one it returns false with no commit, no remote and no push, and
\* does not raise; with one it commits, registers the remote and pushes, in
\* that order, and returns true only after the push succeeded.
C4_TrueOnlyAfterPushSucceeded ==
    /\ StagingGate
    /\ up.pushRet = "true" => up.push = "accepted"

C6_TempWorkspaceRemoved == tempOnDisk = {}

(***************************************************************************)
(* Properties of the session                                               *)
(***************************************************************************)
\* the two token shapes, stated on their own: the prefix, then exactly the
\* given number of characters of the class, and nothing else
ExactShape(t) ==
    \/ /\ Len(t) = 4 + ClassicLen
       /\ \A i \in 1..4 : t[i] = ghp_[i]
       /\ \A i \in 5..Len(t) : t[i] \in Alnum
    \/ /\ Len(t) = 11 + FineLen
       /\ \A i \in 1..11 : t[i] = github_pat_[i]
       /\ \A i \in 12..Len(t) : t[i] \in AlnumUnderscore

\* C7: a call of authenticate that fails leaves the stored client as it was;
\* a call that succeeds stores the client of the new (trimmed) token.
C7_ReauthenticationAtomic ==
    [][authCalls' # authCalls =>
          IF authRet'.success
          THEN github_client' = Some(strip(authRet'.token))
          ELSE github_client' = github_client]_vars

C7_Witness ==
    /\ authCalls >= 2 /\ ~authRet.success /\ authRet.net = 1
    /\ github_client # None
    /\ github_client # Some(strip(authRet.token))

\* C8: a well-formed token that the remote rejects, the rejection surfacing
\* when login is first read, gives a failure whose message carries the
\* remote's message, and the session stays unset.
C8_RejectionCarriesRemoteMessage ==
    (/\ authCalls > 0 /\ authRet.exc = BadCredentials /\ authRet.surface = "login")
    => /\ ~authRet.success
       /\ HasFragment(authRet.message, BadCredentials.data[1])
       /\ ~authenticated

\* C9: authenticate makes no round trip for a token that is empty, blank or,
\* once trimmed, not of one of the two shapes, and fails at once; a token of
\* one of the shapes once trimmed makes exactly one.
C9_NoNetworkForMalformedToken ==
    authCalls > 0 =>
        IF ExactShape(strip(authRet.token))
        THEN authRet.net = 1
        ELSE authRet.net = 0 /\ ~authRet.success

C9_Witness ==
    /\ authCalls > 0 /\ authRet.net = 0
    /\ authRet.token # <<>> /\ strip(authRet.token) = <<>>

\* C10: when authenticate resolved the identity and the detail fields could
\* not be fetched afterwards, the operator is still authenticated.
C10_PartialSuccessAuthenticated ==
    (authCalls > 0 /\ authRet.success /\ infoRet = "failed") => authenticated


(***************************************************************************)
(* Properties of clone_repository                                          *)
(***************************************************************************)
\* the raised text is the one of the destination check
IsDestinationConflict(r) ==
    /\ r.ret = "raised"
    /\ HasFragment(r.err, "Directory '")
    /\ contains(r.err, "already exists")

\* the call got as far as the destination check: the download location is
\* there, or could be made
CheckReached == cl.called /\ cl.r.kind # "makedirs"

\* C3: clone_repository fails with the destination-conflict error exactly when
\* the destination local_path/repo_name is a non-empty directory at the check;
\* then the clone primitive is not invoked, no directory is created, the
\* progress sink gets no delivery and the destination is left as it was.  When
\* the check finds the destination absent or empty, the primitive is invoked.
C3_DestinationConflict ==
    cl.called =>
        /\ IsDestinationConflict(cl.r) <=> cl.destBefore = "nonempty"
        /\ IsDestinationConflict(cl.r) =>
              /\ ~cl.r.primitive
              /\ ~cl.r.made
              /\ cl.r.progress = <<>>
              /\ cparent[cl.local_path] = cl.parentBefore
              /\ cdest[<<cl.local_path, cl.repo_name>>] = cl.destBefore
        /\ (CheckReached /\ cl.destBefore \in {"absent", "empty"}) => cl.r.primitive

\* a clone with a progress sink into ./downloads/lib, which holds foo.txt
C3_Witness ==
    /\ cl.called
    /\ cl.callback
    /\ cl.destBefore = "nonempty"
    /\ IsDestinationConflict(cl.r)

(***************************************************************************)
(* Properties of the Repository List page                                  *)
(***************************************************************************)
\* the call of download_repository the run made for the repository name
DownloadOf(name) ==
    {i \in 1..Len(dl.calls) : dl.calls[i].repo = name}

\* C2: a run of the page triggered by Start Download in a repository's download
\* form, with a non-blank location and the repositories listed, takes the
\* download of that repository out of Idle: clone_repository is reached or the
\* download fails before it, and the workflow ends in Done or Failed.
C2_DownloadLeavesIdle ==
    (dl.ev.kind = "confirm" /\ strip(dl.ev.path) # <<>> /\ dl.page = "listed") =>
        \E i \in DownloadOf(dl.ev.repo) : dl.calls[i].state \in {"Done", "Failed"}

(***************************************************************************)
(* Properties of get_repositories                                          *)
(***************************************************************************)
\* the account's repositories a scope asks for, in the remote's order
InScope(repo_type) ==
    LET Wanted(r) == /\ repo_type = "private" => r.private
                     /\ repo_type = "public" => ~r.private
    IN  SelectSeq(AccountRepos, Wanted)

NamesOf(records) == [i \in 1..Len(records) |-> records[i].name]

\* the number of fetches of the call that raised
FetchesFailed ==
    Len(ls.env.fails) +
    (IF ls.env.pageFail \in 1..((Len(InScope(ls.repo_type)) + PageSize - 1) \div PageSize)
     THEN 1 ELSE 0)

\* C11: a call of get_repositories in which a single fetch failed on the
\* connection, be it the
\* first request or the fetch of a later page while the listing is iterated,
\* does not fail and returns a record for every repository of the scope.
C11_PageFailureRetried ==
    (ls.called /\ FetchesFailed = 1 /\ ls.env.e = ConnectionFailed) =>
        /\ ls.r.ok
        /\ NamesOf(ls.r.repos) = NamesOf(InScope(ls.repo_type))

\* C12: when no fetch fails, a repository whose normalization raises, whatever
\* the field read that raised, is dropped alone: the call returns the records
\* of all the others in the remote's order.
C12_BadRepositoryDroppedAlone ==
    (ls.called /\ FetchesFailed = 0
               /\ Cardinality({n \in AccountNames : ls.env.bad[n] # "none"}) = 1) =>
        LET Good(r) == ls.env.bad[r.name] = "none"
        IN  /\ ls.r.ok
            /\ NamesOf(ls.r.repos) = NamesOf(SelectSeq(InScope(ls.repo_type), Good))

\* C13: a call that succeeds with every repository normalized returns one
\* record per repository of the scope and none else: the private ones for
\* private, the public ones for public, all of them for any other value.
C13_ScopeFilter ==
    (ls.called /\ ls.r.ok /\ ls.env.bad = NoListEnv.bad) =>
        /\ NamesOf(ls.r.repos) = NamesOf(InScope(ls.repo_type))
        /\ \A i \in 1..Len(ls.r.repos) :
              /\ ls.repo_type = "private" => ls.r.repos[i].private
              /\ ls.repo_type = "public" => ~ls.r.repos[i].private
              /\ \E j \in 1..Len(AccountRepos) :
                    /\ AccountRepos[j].name = ls.r.repos[i].name
                    /\ AccountRepos[j].private = ls.r.repos[i].private

C13_Witness ==
    /\ ls.called /\ ls.r.ok /\ ls.env.bad = NoListEnv.bad
    /\ ls.repo_type = "private"
    /\ Len(ls.r.repos) = 2

(***************************************************************************)
(* Properties of search_repositories                                       *)
(***************************************************************************)
\* the text q occurs in the text t
Occurs(q, t) ==
    \E start \in 1..(Len(t) + 1) :
        \A k \in 1..Len(q) : start + k - 1 <= Len(t) /\ t[start + k - 1] = q[k]

\* C14: search_repositories returns, in the order of its input, exactly the
\* records in which the lower-cased query occurs in the lower-cased name, in
\* the lower-cased description, or in the lower-cased language when there is
\* one; with the empty query it returns its input.
C14_SearchSoundComplete ==
    sr.called =>
        LET q == lower_text(sr.query)
            Hit(r) == \/ Occurs(q, lower_text(spell(r.name)))
                      \/ Occurs(q, lower_text(r.description))
                      \/ r.language # <<>> /\ Occurs(q, lower_text(r.language))
        IN  IF sr.query = <<>> THEN sr.result = sr.records
            ELSE sr.result = SelectSeq(sr.records, Hit)

\* the query B picks the second of two records by its language alone
C14_Witness ==
    /\ sr.called
    /\ sr.query = <<"B">>
    /\ Len(sr.records) = 2
    /\ sr.records[1].name = <<"x", "y">>
    /\ sr.records[2].name = <<"y">>
    /\ sr.result = <<sr.records[2]>>

(***************************************************************************)
(* Properties of validate_pat_format                                       *)
(***************************************************************************)
\* C15: validate_pat_format is true exactly of ghp_ and 36 alphanumeric
\* characters and of github_pat_ and 82 characters of [A-Za-z0-9_]: not of a
\* token that lost a character or got one more, a trailing newline included.
C15_PatFormatExact ==
    pat.called => (pat.ret <=> ExactShape(pat.token))

(***************************************************************************)
(* Properties of get_directory_size                                        *)
(***************************************************************************)
RECURSIVE Sum(_)
Sum(sizes) == IF sizes = <<>> THEN 0 ELSE Head(sizes) + Sum(Tail(sizes))

\* C16: get_directory_size does not raise; it returns 0 for an empty
\* directory and the sum of the sizes when no file vanishes; when one file
\* vanishes during the walk, at whatever moment, the result is off the sum by
\* at most the size of that file.
C16_DirectorySize ==
    sz.called =>
        /\ ~sz.r.raised
        /\ sz.files = <<>> => sz.r.size = 0
        /\ sz.vanished = 0 => sz.r.size = Sum(sz.files)
        /\ sz.vanished # 0 =>
              /\ Sum(sz.files) - sz.r.size <= sz.files[sz.vanished]
              /\ sz.r.size <= Sum(sz.files)

(***************************************************************************)
(* Properties of the progress of clone_repository                          *)
(***************************************************************************)
Completed == Delivery(100, "Clone completed!")

\* C17: of a call of clone_repository with a progress sink, every percentage
\* delivered is an integer of 0..100; when the clone primitive ran, one
\* delivery was made for each of its signals that has a total; and the
\* delivery of 100 with 'Clone completed!' is made exactly when the clone
\* succeeded, as the last one.
C17_ProgressDeliveries ==
    (cl.called /\ cl.callback) =>
        LET p == cl.r.progress
            during == {i \in 1..Len(p) : p[i].text = "Cloning..."}
            totals == {i \in 1..Len(cl.sigs) : cl.sigs[i].max # 0}
        IN  /\ \A i \in 1..Len(p) : p[i].pct \in 0..100
            /\ cl.r.primitive => Cardinality(during) = Cardinality(totals)
            /\ (\E i \in 1..Len(p) : p[i] = Completed) <=> cl.r.ret = "path"
            /\ \A i \in 1..Len(p) : p[i] = Completed => i = Len(p)

\* a clone that succeeded after a signal without a total and one with
C17_Witness ==
    /\ cl.called /\ cl.callback
    /\ cl.r.ret = "path"
    /\ cl.sigs = <<NoTotal, Whole>>
    /\ Len(cl.r.progress) = 3

(***************************************************************************)
(* Properties of the classes of a failed clone                             *)
(***************************************************************************)
\* the text has the word, in whatever case
Mentions(text, word) == \E i \in 1..Len(text) : lower(text[i]) = word

\* C18: the failure of a clone is shown as one class, decided on its error
\* text whatever the case of the letters: the destination exists if it has
\* 'already exists'; else permission denied if it has 'permission'; else a
\* network error if it has 'network' or 'timeout'; else the message itself.
C18_FailureClasses ==
    (dc.called /\ dc.clone.ret = "raised") =>
        LET err == dc.clone.err
        IN  /\ dc.state = "Failed"
            /\ Len(dc.msgs) = 1
            /\ dc.msgs[1].level = "error"
            /\ dc.msgs[1].text =
                 IF Mentions(err, "already exists")
                 THEN <<"Download failed: Directory already exists.">>
                 ELSE IF Mentions(err, "permission")
                 THEN <<"Download failed: Permission denied.">>
                 ELSE IF Mentions(err, "network") \/ Mentions(err, "timeout")
                 THEN <<"Download failed: Network error.">>
                 ELSE <<"Download failed: ">> \o err

\* the destination on the share exists: the text has the words of three classes
C18_Witness ==
    /\ dc.called /\ dc.clone.ret = "raised"
    /\ dc.clone.kind = "conflict"
    /\ Mentions(dc.clone.err, "permission")
    /\ Mentions(dc.clone.err, "network")
    /\ dc.msgs[1].text = <<"Download failed: Directory already exists.">>

(***************************************************************************)
(* Properties of cleanup_temp_dirs                                         *)
(***************************************************************************)
\* the directories of a sequence
Among(seq) == {seq[i] : i \in 1..Len(seq)}

\* C19: cleanup_temp_dirs never raises, and it attempts the removal of every
\* registered directory that exists: one whose removal fails is logged and
\* stays, and every other one, after it in the list or before, is removed.
C19_CleanupAttemptsAll ==
    cu.called =>
        /\ ~cu.run.raised
        /\ cu.temp_dirs = <<>>
        /\ Among(cu.run.attempts) = Among(cu.registered) \cap cu.onDisk
        /\ Among(cu.run.warnings) = Among(cu.registered) \cap cu.failing
        /\ cu.run.left = cu.onDisk \ (Among(cu.registered) \ cu.failing)

\* a removal failed and a directory after it in the list was removed
C19_Witness ==
    /\ cu.called
    /\ \E i, j \in 1..Len(cu.registered) :
          /\ i < j
          /\ cu.registered[i] \in cu.failing
          /\ cu.registered[j] \in cu.onDisk \ cu.failing
          /\ cu.registered[j] \notin cu.run.left

(***************************************************************************)
(* Properties of the pages while git cannot be validated                   *)
(***************************************************************************)
\* C20: while validate_git_installation fails (git not installed, errored or
\* timed out), the run of a page performs no operation of git: the upload page
\* asks for no repository, starts no step of initialize_and_push and makes no
\* temporary directory; the download page clones nothing; the code editor
\* neither stages, commits nor pushes.
C20_NoOperationWithoutTool ==
    ~validate_git_installation(tool).valid =>
        /\ up.reqs = <<>> /\ up.ops = <<>> /\ up.temp = None
        /\ \A i \in 1..Len(dl.calls) : ~dl.calls[i].clone.primitive
        /\ ed.run.ops = <<>> /\ ed.run.attempted = <<>>

\* the folder form is submitted while git cannot be validated: the run is
\* stopped with the message of the validation
C20_Witness ==
    /\ ~validate_git_installation(tool).valid
    /\ up.page = "folder" /\ up.state = "Failed"
    /\ HasFragment(up.msgs[1].text, "Git installation issue: ")

(***************************************************************************)
(* Properties of the workflows' ends                                       *)
(***************************************************************************)
\* a run of the upload page in which an operation on the remote or of the
\* local tool failed: the creation, a step of initialize_and_push, the push
\* itself, or the writing of the temporary files
HitFailure ==
    /\ up.page # "none"
    /\ \/ up.reqs # <<>> /\ up.created = None
       \/ up.pushRet = "raised"
       \/ up.push \in {"failed", "rejected"}
       \/ up.fault \in {"mkdtemp", "write"}

\* C21: every run of an upload workflow in which an operation on the remote or
\* of the local tool failed ends Failed, with an error shown to the operator.
C21_FailuresEndFailed ==
    HitFailure => (up.state = "Failed" /\ Shown("error"))

(***************************************************************************)
(* Properties of the identity of a session                                 *)
(***************************************************************************)
\* C22: get_user_info on an authenticated session makes no round trip to the
\* remote and returns the snapshot the session holds, however the round trips
\* to the remote would end after the authentication.
C22_IdentityCached ==
    gi.called => (gi.r.net = 0 /\ gi.r.info = gi.cached)

(***************************************************************************)
(* Properties of the preconditions of an upload                            *)
(***************************************************************************)
\* the messages of the checks at the head of the two upload workflows
PreconditionTexts ==
    {"Please provide both local path and repository name.",
     "Please provide a repository name.",
     "Local path does not exist: ",
     "Path is not a directory: ",
     "Directory is empty. Please select a directory with files."}

\* the run ended at one of those checks
PreconditionFailed ==
    /\ up.page \in {"folder", "files"}
    /\ up.msgs # <<>>
    /\ up.msgs[1].text[1] \in PreconditionTexts

\* the part of C23 that is about the workflows: a run that fails a check made
\* no request, started no step of the local tool and made no temporary
\* directory, and no run asks the remote for a repository without a name
WorkflowsFailFast ==
    /\ PreconditionFailed =>
          /\ up.state = "Failed"
          /\ up.reqs = <<>>
          /\ up.ops = <<>> /\ up.pushRet = "not_called"
          /\ up.temp = None
    /\ \A i \in 1..Len(up.reqs) : up.reqs[i][2] # ""

\* C23: an upload whose preconditions fail ends Failed before any I/O: with an
\* empty repository name (in both workflows and in create_repository itself)
\* or, for a folder upload, a path that is empty, missing, no directory or an
\* empty directory, no creation request is issued, no local repository is
\* initialized and no temporary directory is made.
C23_PreconditionsBeforeIO ==
    /\ WorkflowsFailFast
    /\ (cr.called /\ cr.name = "") => cr.reqs = <<>>

(***************************************************************************)
(* Properties of the commit step of the code editor                        *)
(***************************************************************************)
\* C24: when the operator has pressed Save & Commit on an edited file, the
\* run it triggers stages the file and either offers the commit or reports
\* that nothing changed; and when the operator then presses Commit Changes,
\* the run it triggers creates a commit holding the change that was staged.
C24_CommitAfterConfirm ==
    /\ (ed.ev = SaveAndCommit /\ ed.run.page \in {"browse", "edit"}) =>
          /\ HasFragment(ed.run.ops, "add")
          /\ \/ CommitChanges \in ed.run.offered
             \/ \E i \in 1..Len(ed.run.msgs) : ed.run.msgs[i].level = "info"
    /\ (ed.ev = CommitChanges /\ ed.run.page \in {"browse", "edit"}) =>
          /\ HasFragment(ed.run.ops, "commit")
          /\ ed.run.tree.head = ed.run.tree.index

(***************************************************************************)
(* The retry loop of get_repositories                                      *)
(***************************************************************************)
\* the attempts of the call that raised
FailedAttempts ==
    IF Len(ls.env.fails) < max_retries THEN Len(ls.env.fails) ELSE max_retries

\* C25: get_repositories makes at most max_retries attempts of the listing
\* call and stops at the first that succeeds; it waits once after each failed
\* attempt that is followed by another, never after the last; after
\* max_retries failed attempts it raises the error made of the last
\* attempt's exception.
C25_BoundedRetry ==
    ls.called =>
        /\ ls.r.attempts \in 1..max_retries
        /\ ls.r.attempts = IF FailedAttempts < max_retries THEN FailedAttempts + 1
                           ELSE max_retries
        /\ ls.r.sleeps = ls.r.attempts - 1
        /\ FailedAttempts = max_retries =>
              /\ ~ls.r.ok
              /\ ls.r.err = list_error(ls.env.fails[max_retries])
              /\ ls.r.reqs = 0

\* three attempts failed, the last for another reason than the first
C25_Witness ==
    /\ ls.called
    /\ Len(ls.env.fails) = max_retries
    /\ ls.env.fails[1] = ConnectionFailed
    /\ ls.env.fails[max_retries] = ListRateLimited
    /\ ~ls.r.ok
    /\ ls.r.sleeps = 2

(***************************************************************************)
(* The session over logins and logouts                                     *)
(***************************************************************************)
\* C26: whenever the session is authenticated, it stores the client made of
\* its token and the identity of that client; a step that ends the
\* authenticated session (logout) leaves no identity, an empty token and no
\* client.
C26_SessionInvariant ==
    /\ [](authenticated =>
            /\ github_client = Some(strip(github_token))
            /\ user_info = Some([login |-> Login(The(github_client))]))
    /\ [][(authenticated /\ ~authenticated') =>
            /\ user_info' = None
            /\ github_token' = <<>>
            /\ github_client' = None]_vars

\* logged out after a login that succeeded
C26_Witness ==
    /\ authCalls > 0 /\ authRet.success /\ infoRet = "ok"
    /\ ~authenticated
    /\ github_client = None /\ user_info = None /\ github_token = <<>>

(***************************************************************************)
(* Uploading a folder again after its push failed                          *)
(***************************************************************************)
\* the last run committed in folder p and then failed at the registration of
\* the remote or at the push, and p has not changed since
CommittedThenFailed(p) ==
    /\ up.dir = disk[p].id
    /\ up.pushRet = "raised"
    /\ Len(up.ops) >= 4 /\ up.ops[3] = "commit"
    /\ ~disk[p].pending

\* the commits made in the folder named id that the remote repositories hold
Delivered(rem, id) ==
    {c \in UNION {{rem[n].main[i] : i \in DOMAIN rem[n].main} : n \in RemoteNames} :
        c.in = id}

\* C27: after initialize_and_push committed in a folder and then failed at
\* the registration of the remote or at the push, a call on the unchanged
\* folder, whatever the repository, returns false or raises, without pushing;
\* no commit of the folder reaches a remote.
C27_RetryDeliversNothing ==
    [][\A p \in LocalPaths :
          CommittedThenFailed(p) =>
              /\ Delivered(remote', disk[p].id) = {}
              /\ (up' # up /\ up'.dir = disk[p].id) =>
                    /\ up'.pushRet \in {"false", "raised"}
                    /\ up'.push = "not_called"]_vars

\* a run on /proj returned false: the folder held a commit from the run that
\* failed when the remote was to be registered, and no commit of it is remote
C27_Witness ==
    /\ up.dir = disk["/proj"].id
    /\ up.pushRet = "false" /\ ~up.hadChange /\ ~up.fresh
    /\ Len(disk["/proj"].head) = 1
    /\ disk["/proj"].origin = None
    /\ Delivered(remote, disk["/proj"].id) = {}

(***************************************************************************)
(* The repository left by an upload that had nothing to commit             *)
(***************************************************************************)
\* C28: when initialize_and_push returned false in a run of either workflow,
\* the run had created its repository before, and the repository is there
\* afterwards, holding its auto-init commit and nothing else.
C28_NoOpLeavesRepository ==
    up.pushRet = "false" =>
        /\ up.created # None
        /\ up.reqs = <<<<"create", The(up.created)>>>>
        /\ remote[The(up.created)].exists
        /\ remote[The(up.created)].main = <<AutoInitCommit(The(up.created))>>

\* a file upload of the ignored file alone ended as a no-op
C28_Witness ==
    /\ up.page = "files" /\ up.state = "NoOp" /\ up.pushRet = "false"
    /\ up.created = Some("demo")
    /\ remote["demo"].exists

(***************************************************************************)
(* What a reported success of an upload stands for                         *)
(***************************************************************************)
\* the part about what the calls returned: success is shown, and the run ends
\* Done, only after create_repository succeeded and initialize_and_push
\* returned true in the run
DoneOnlyAfterTrue ==
    (up.state = "Done" \/ Shown("success")) =>
        /\ up.state = "Done"
        /\ up.created # None
        /\ up.reqs = <<<<"create", The(up.created)>>>>
        /\ up.pushRet = "true"

\* C29: an upload workflow reports success only when, in that run,
\* create_repository succeeded and initialize_and_push then returned true,
\* the push to the created repository having completed; never after a no-op
\* or a failed step.
C29_SuccessMeansPushed ==
    /\ DoneOnlyAfterTrue
    /\ up.state = "Done" =>
          /\ up.push = "accepted"
          /\ Delivered(remote, up.dir) # {}

(***************************************************************************)
(* The class of a failed clone, over two downloads                         *)
(***************************************************************************)
\* why the clone of a call failed: the step that raised and, for the clone
\* primitive, what it wrote to stderr
CauseOf(call) ==
    <<call.clone.kind, IF call.clone.kind = "git" THEN call.env.outcome ELSE <<>>>>

\* the class a failed download was shown as
ClassOf(call) ==
    LET text == call.msgs[1].text
    IN  IF text \in {<<"Download failed: Directory already exists.">>,
                     <<"Download failed: Permission denied.">>,
                     <<"Download failed: Network error.">>}
        THEN text
        ELSE <<"Download failed: ">>

\* C30: two downloads whose clones failed for the same cause are shown as the
\* same class, whatever the repository's name, its clone URL and the
\* destination are.
C30_ClassIndependentOfNames ==
    (/\ dc.called /\ dc.clone.ret = "raised"
     /\ da.called /\ da.clone.ret = "raised"
     /\ CauseOf(dc) = CauseOf(da))
    => ClassOf(dc) = ClassOf(da)

====
